---- MODULE Spec2Model ----
(***************************************************************************)
(* A model of ptcov: the Intel PT packet decoder (src/packet) and the      *)
(* coverage reconstruction engine (src/coverage_decoder.rs).               *)
(*                                                                         *)
(* A u64 is a tuple of four 16-bit limbs, least significant first, so that *)
(* every operation keeps its 64-bit width.  A trace is a sequence of       *)
(* bytes.  The build modelled is the default one (no optional feature).    *)
(***************************************************************************)
EXTENDS Integers, Sequences, FiniteSets, TLC

(***************************************************************************)
(* u64 arithmetic on limbs                                                 *)
(***************************************************************************)
Limb == 256 * 256

U64(n) == <<n % Limb, (n \div Limb) % Limb, 0, 0>>

Zero64 == <<0, 0, 0, 0>>

\* a < b on u64
Lt64(a, b) ==
    IF a[4] # b[4] THEN a[4] < b[4]
    ELSE IF a[3] # b[3] THEN a[3] < b[3]
    ELSE IF a[2] # b[2] THEN a[2] < b[2]
    ELSE a[1] < b[1]

Le64(a, b) == a = b \/ Lt64(a, b)

\* wrapping a + n for a small natural n
Add64(a, n) ==
    LET s1 == a[1] + n
        s2 == a[2] + (s1 \div Limb)
        s3 == a[3] + (s2 \div Limb)
        s4 == a[4] + (s3 \div Limb)
    IN  <<s1 % Limb, s2 % Limb, s3 % Limb, s4 % Limb>>

\* wrapping a - b on u64
Sub64(a, b) ==
    LET d1 == a[1] - b[1]
        c1 == IF d1 < 0 THEN 1 ELSE 0
        d2 == a[2] - b[2] - c1
        c2 == IF d2 < 0 THEN 1 ELSE 0
        d3 == a[3] - b[3] - c2
        c3 == IF d3 < 0 THEN 1 ELSE 0
        d4 == a[4] - b[4] - c3
    IN  <<d1 % Limb, d2 % Limb, d3 % Limb, d4 % Limb>>

\* the value of a u64 known to be small (a position inside an image)
Small64(a) == IF a[3] = 0 /\ a[4] = 0 /\ a[2] < 16384 THEN a[1] + Limb * a[2] ELSE -1

RECURSIVE XorN(_, _)
XorN(a, b) ==
    IF a = 0 THEN b
    ELSE IF b = 0 THEN a
    ELSE ((a + b) % 2) + 2 * XorN(a \div 2, b \div 2)

Xor64(a, b) == <<XorN(a[1], b[1]), XorN(a[2], b[2]), XorN(a[3], b[3]), XorN(a[4], b[4])>>

ToBytes(k) ==
    <<k[1] % 256, k[1] \div 256, k[2] % 256, k[2] \div 256,
      k[3] % 256, k[3] \div 256, k[4] % 256, k[4] \div 256>>

FromBytes(b) ==
    <<b[1] + 256 * b[2], b[3] + 256 * b[4], b[5] + 256 * b[6], b[7] + 256 * b[8]>>

RECURSIVE MulRow(_, _, _, _)
MulRow(A, B, i, j) ==
    IF j > i THEN 0 ELSE A[j] * B[i + 1 - j] + MulRow(A, B, i, j + 1)

RECURSIVE MulBytes(_, _, _, _, _)
MulBytes(A, B, i, carry, acc) ==
    IF i > 8 THEN acc
    ELSE LET s == carry + MulRow(A, B, i, 1)
         IN  MulBytes(A, B, i + 1, s \div 256, Append(acc, s % 256))

\* u64::wrapping_mul
WrappingMul(a, b) == FromBytes(MulBytes(ToBytes(a), ToBytes(b), 1, 0, <<>>))

\* k >> 33
Shr33(k) == <<(k[3] \div 2) + (k[4] % 2) * 32768, k[4] \div 2, 0, 0>>

\* 0xff51afd7ed558ccd and 0xc4ceb9fe1a85ec53
FMIX_C1 == <<36045, 60757, 45015, 65361>>
FMIX_C2 == <<60499, 6789, 47614, 50382>>

fmix64(k) ==
    LET k1 == Xor64(k, Shr33(k))
        k2 == WrappingMul(k1, FMIX_C1)
        k3 == Xor64(k2, Shr33(k2))
        k4 == WrappingMul(k3, FMIX_C2)
    IN  Xor64(k4, Shr33(k4))

\* ((x << 16) as i64 >> 16) as u64
sign_extend_48(x) == <<x[1], x[2], x[3], IF x[3] >= 32768 THEN 65535 ELSE 0>>

\* (x as usize) % n, usize being 64 bits wide
Mod64(x, n) ==
    LET r4 == x[4] % n
        r3 == (r4 * Limb + x[3]) % n
        r2 == (r3 * Limb + x[2]) % n
    IN  (r2 * Limb + x[1]) % n

\* a bucket index taken from the addresses without hashing them
coverage_entry_unhashed(from, to, map_len) == Mod64(Xor64(from, to), map_len)

\* the bucket index, 0-based
coverage_entry(from, to, map_len) == Mod64(Xor64(fmix64(from), fmix64(to)), map_len)

(***************************************************************************)
(* Packets (src/packet).  A packet is a record; the fields a kind does not *)
(* use hold a default.                                                     *)
(***************************************************************************)
Packet(kind, ip_bytes, target_ip, raw) ==
    [kind |-> kind, ip_bytes |-> ip_bytes, target_ip |-> target_ip, raw |-> raw]

Plain(kind) == Packet(kind, "None", Zero64, <<>>)

NoPacket == Plain("none")

\* Psb::SIZE and PsbEnd::SIZE (packet/psb.rs)
PSB_SIZE == 16
PSBEND_SIZE == 2

\* the size of the payload alone, without the header byte
IpBytesPayloadSize(ip_bytes) ==
    CASE ip_bytes = "None" -> 0
      [] ip_bytes = "_16" -> 2
      [] ip_bytes = "_32" -> 4
      [] ip_bytes \in {"_48", "SignExtend48"} -> 6
      [] ip_bytes = "_64" -> 8

\* IpBytes::original_size
IpBytesSize(ip_bytes) ==
    CASE ip_bytes = "None" -> 1
      [] ip_bytes = "_16" -> 3
      [] ip_bytes = "_32" -> 5
      [] ip_bytes \in {"_48", "SignExtend48"} -> 7
      [] ip_bytes = "_64" -> 9

\* PtPacket::original_size
original_size(p) ==
    CASE p.kind = "TntShort" -> 1
      [] p.kind = "TntLong" -> 8
      [] p.kind \in {"Tip", "TipPge", "TipPgd", "Fup"} -> IpBytesSize(p.ip_bytes)
      [] p.kind = "Pip" -> 8
      [] p.kind \in {"ModeExec", "ModeTsx"} -> 2
      [] p.kind = "TraceStop" -> 2
      [] p.kind = "Vmcs" -> 7
      [] p.kind = "Ovf" -> 2
      [] p.kind = "Psb" -> PSB_SIZE
      [] p.kind = "PsbEnd" -> PSBEND_SIZE
      [] p.kind = "Mnt" -> 11
      [] p.kind = "Trig" -> 3

\* the byte at offset i of input[pos..]
At(input, pos, i) == input[pos + i + 1]

\* Tip::try_from_payload: the packet, or NoPacket for MalformedPacket
TipFromPayload(kind, input, pos) ==
    LET n == Len(input) - pos - 1
        tag == (At(input, pos, 0) \div 32) * 32
        b(i) == At(input, pos, i)
    IN  IF tag = 0 THEN Packet(kind, "None", Zero64, <<>>)
        ELSE IF tag = 32 /\ n >= 2
            THEN Packet(kind, "_16", <<b(1) + 256 * b(2), 0, 0, 0>>, <<>>)
        ELSE IF tag = 64 /\ n >= 4
            THEN Packet(kind, "_32", <<b(1) + 256 * b(2), b(3) + 256 * b(4), 0, 0>>, <<>>)
        ELSE IF tag = 128 /\ n >= 6
            THEN Packet(kind, "_48",
                        <<b(1) + 256 * b(2), b(3) + 256 * b(4), b(5) + 256 * b(6), 0>>, <<>>)
        ELSE IF tag = 96 /\ n >= 6
            THEN Packet(kind, "SignExtend48",
                        <<b(1) + 256 * b(2), b(3) + 256 * b(4), b(5) + 256 * b(6), 0>>, <<>>)
        ELSE IF tag = 192 /\ n >= 8
            THEN Packet(kind, "_64",
                        <<b(1) + 256 * b(2), b(3) + 256 * b(4), b(5) + 256 * b(6),
                          b(7) + 256 * b(8)>>, <<>>)
        ELSE NoPacket

Raw(input, pos, from, count) == [i \in 1..count |-> At(input, pos, from + i - 1)]

\* the match of PtPacket::parse on a slice that starts with a non-zero byte and
\* is no Cbr: the packet, or NoPacket for MalformedPacket
ParseOne(input, pos) ==
    LET n == Len(input) - pos
        b0 == At(input, pos, 0)
        b1 == At(input, pos, 1)
    IN  IF b0 % 2 = 0 /\ b0 >= 4 THEN Packet("TntShort", "None", Zero64, <<b0>>)
        ELSE IF b0 % 32 = 1 THEN TipFromPayload("TipPgd", input, pos)
        ELSE IF b0 % 32 = 13 THEN TipFromPayload("Tip", input, pos)
        ELSE IF b0 % 32 = 17 THEN TipFromPayload("TipPge", input, pos)
        ELSE IF b0 % 32 = 29 THEN TipFromPayload("Fup", input, pos)
        ELSE IF b0 = 153 /\ n >= 2 /\ b1 \div 32 = 0
            THEN IF b1 % 4 = 3 THEN NoPacket ELSE Packet("ModeExec", "None", Zero64, <<b1>>)
        ELSE IF b0 = 153 /\ n >= 2 /\ b1 \div 32 = 1
            THEN IF b1 % 4 = 3 THEN NoPacket ELSE Packet("ModeTsx", "None", Zero64, <<b1 % 4>>)
        ELSE IF b0 = 2 /\ n >= 2 /\ b1 = 35 THEN Plain("PsbEnd")
        ELSE IF b0 = 2 /\ n >= 2 /\ b1 = 243 THEN Plain("Ovf")
        ELSE IF b0 = 2 /\ n >= 2 /\ b1 = 131 THEN Plain("TraceStop")
        ELSE IF b0 = 2 /\ n >= 2 /\ b1 = 130 THEN Plain("Psb")
        ELSE IF b0 = 2 /\ n >= 7 /\ b1 = 200
            THEN Packet("Vmcs", "None", Zero64, Raw(input, pos, 2, 5))
        ELSE IF b0 = 2 /\ n >= 8 /\ b1 = 67
            THEN Packet("Pip", "None", Zero64, Raw(input, pos, 2, 6))
        ELSE IF b0 = 2 /\ n >= 8 /\ b1 = 163
            THEN IF Raw(input, pos, 2, 6) = <<0, 0, 0, 0, 0, 0>> THEN NoPacket
                 ELSE Packet("TntLong", "None", Zero64, Raw(input, pos, 2, 6))
        ELSE IF b0 = 217 /\ n >= 3 THEN Packet("Trig", "None", Zero64, Raw(input, pos, 1, 2))
        ELSE IF b0 = 2 /\ n >= 11 /\ b1 = 195 /\ At(input, pos, 2) = 136
            THEN Packet("Mnt", "None", Zero64, Raw(input, pos, 3, 8))
        ELSE NoPacket

\* PtPacket::parse: [res, pkt, pos]; pos is the cursor the call leaves
RECURSIVE parse(_, _)
parse(input, pos) ==
    IF pos >= Len(input) THEN [res |-> "Eof", pkt |-> NoPacket, pos |-> pos]
    ELSE IF At(input, pos, 0) = 0 THEN parse(input, pos + 1)
    ELSE IF /\ Len(input) - pos >= 4
            /\ At(input, pos, 0) = 2
            /\ At(input, pos, 1) = 3
        THEN parse(input, pos + 4)
    ELSE LET p == ParseOne(input, pos)
         IN  IF p = NoPacket
             THEN [res |-> "MalformedPacket", pkt |-> NoPacket, pos |-> pos]
             ELSE [res |-> "Ok", pkt |-> p, pos |-> pos + original_size(p)]

\* a decompression that keeps no bit of the running last IP
TipIpWhole(p, last_tip_ip) ==
    IF p.ip_bytes = "None" THEN [ok |-> FALSE, last_ip |-> last_tip_ip]
    ELSE [ok |-> TRUE, last_ip |-> p.target_ip]

\* Tip::ip: [ok, last_ip], last_ip being the running last IP after the call
TipIp(p, last_tip_ip) ==
    LET t == p.target_ip
        l == last_tip_ip
    IN  CASE p.ip_bytes = "None" -> [ok |-> FALSE, last_ip |-> l]
          [] p.ip_bytes = "_16" -> [ok |-> TRUE, last_ip |-> <<t[1], l[2], l[3], l[4]>>]
          [] p.ip_bytes = "_32" -> [ok |-> TRUE, last_ip |-> <<t[1], t[2], l[3], l[4]>>]
          [] p.ip_bytes = "SignExtend48" -> [ok |-> TRUE, last_ip |-> sign_extend_48(t)]
          [] p.ip_bytes = "_48" -> [ok |-> TRUE, last_ip |-> <<t[1], t[2], t[3], l[4]>>]
          [] p.ip_bytes = "_64" -> [ok |-> TRUE, last_ip |-> t]

RECURSIVE Pow2(_)
Pow2(k) == IF k = 0 THEN 1 ELSE 2 * Pow2(k - 1)

\* bit k of a little-endian byte string
BitAt(raw, k) == (raw[(k \div 8) + 1] \div Pow2(k % 8)) % 2

\* the position of the highest set bit (63 - leading_zeros); raw is not zero
RECURSIVE HighestBit(_, _)
HighestBit(raw, k) == IF BitAt(raw, k) = 1 THEN k ELSE HighestBit(raw, k - 1)

\* the bits at positions hi down to lo, as booleans
RECURSIVE BitsDown(_, _, _)
BitsDown(raw, hi, lo) ==
    IF hi < lo THEN <<>> ELSE <<BitAt(raw, hi) = 1>> \o BitsDown(raw, hi - 1, lo)

\* TntShortIter and TntLongIter, collected: the booleans a TNT packet yields
TntIter(p) ==
    IF p.kind = "TntShort"
    THEN BitsDown(p.raw, HighestBit(p.raw, 7) - 1, 1)
    ELSE BitsDown(p.raw, HighestBit(p.raw, 47) - 1, 0)

\* no iterator made yet
NoIter == [kind |-> "none", raw |-> <<>>, mask |-> -1, yielded |-> <<>>, done |-> FALSE]

\* TntShort::into_iter and TntLong::into_iter: mask = 1 << (7 - leading_zeros)
\* or 1 << (63 - leading_zeros).  The mask has one bit set or is 0: it is kept
\* as the position of that bit, -1 standing for 0.
into_iter(p) ==
    [kind |-> p.kind, raw |-> p.raw,
     mask |-> HighestBit(p.raw, IF p.kind = "TntShort" THEN 7 ELSE 47),
     yielded |-> <<>>, done |-> FALSE]

\* mask >>= 1
ShiftRight(mask) == IF mask <= 0 THEN -1 ELSE mask - 1

\* an iterator that also yields bit 0 of the byte
TntShortIterToBit0(it) ==
    LET mask == ShiftRight(it.mask)
    IN  IF mask < 0 THEN [it EXCEPT !.mask = mask, !.done = TRUE]
        ELSE [it EXCEPT !.mask = mask, !.yielded = Append(@, BitAt(it.raw, mask) # 0)]

\* TntShortIter::next: None when the mask is <= 0b1
TntShortIter_next(it) ==
    LET mask == ShiftRight(it.mask)
    IN  IF mask <= 0 THEN [it EXCEPT !.mask = mask, !.done = TRUE]
        ELSE [it EXCEPT !.mask = mask, !.yielded = Append(@, BitAt(it.raw, mask) # 0)]

\* an iterator that keeps bit 0 of the payload back, as the TNT-short one does
TntLongIterLikeShort(it) == [TntShortIter_next(it) EXCEPT !.kind = "TntLong"]

\* TntLongIter::next: None when the mask is 0
TntLongIter_next(it) ==
    LET mask == ShiftRight(it.mask)
    IN  IF mask < 0 THEN [it EXCEPT !.mask = mask, !.done = TRUE]
        ELSE [it EXCEPT !.mask = mask, !.yielded = Append(@, BitAt(it.raw, mask) # 0)]

\* TntIter::next
TntIter_next(it) ==
    IF it.kind = "TntLong" THEN TntLongIter_next(it) ELSE TntShortIter_next(it)

\* ModeExec::addressing_mode, as the bitness handed to the instruction decoder
addressing_mode(mode_exec) ==
    CASE mode_exec % 4 = 0 -> 16
      [] mode_exec % 4 = 2 -> 32
      [] mode_exec % 4 = 1 -> 64

\* Pip::non_root_vmx
non_root_vmx(pip) == pip[1] % 2 # 0

(***************************************************************************)
(* Images and the instruction decoder.  iced_x86 is modelled on the        *)
(* opcodes the images of the model use.                                    *)
(***************************************************************************)
PtImage(virtual_address, data) == [virtual_address |-> virtual_address, data |-> data]

virtual_address_start(image) == image.virtual_address

virtual_address_end(image) == Add64(image.virtual_address, Len(image.data))

Truncate(ip, bitness) ==
    CASE bitness = 16 -> <<ip[1], 0, 0, 0>>
      [] bitness = 32 -> <<ip[1], ip[2], 0, 0>>
      [] bitness = 64 -> ip

\* next_ip + rel8, in the decoder's bitness
Rel8Target(next_ip, rel, bitness) ==
    Truncate(IF rel < 128 THEN Add64(next_ip, rel) ELSE Sub64(next_ip, U64(256 - rel)), bitness)

Suffix(bitness) == CASE bitness = 16 -> "w" [] bitness = 32 -> "d" [] bitness = 64 -> "q"

Instruction(len, flow_control, code, op0_register, near_branch) ==
    [len |-> len, flow_control |-> flow_control, code |-> code,
     op0_register |-> op0_register, near_branch |-> near_branch]

InvalidInstruction == Instruction(0, "Next", "INVALID", "None", Zero64)

\* no instruction has been classified: the instruction, and the class that
\* From<&Instruction> and the table of the test have given it
NoInst == [instruction |-> InvalidInstruction, class |-> "none", raw |-> "none"]

\* iced_x86::Decoder::decode at `position` of `data`, the instruction being at `ip`
Decode(bitness, data, position, ip) ==
    LET n == Len(data) - position
        b(i) == data[position + i + 1]
    IN  IF n <= 0 THEN InvalidInstruction
        ELSE IF b(0) = 144 THEN Instruction(1, "Next", "Nop" \o Suffix(bitness), "None", Zero64)
        ELSE IF b(0) = 195
            THEN Instruction(1, "Return", "Retn" \o Suffix(bitness), "None", Zero64)
        ELSE IF b(0) = 204 THEN Instruction(1, "Interrupt", "Int3", "None", Zero64)
        ELSE IF b(0) = 235 /\ n >= 2
            THEN Instruction(2, "UnconditionalBranch", "Jmp_rel8", "None",
                             Rel8Target(Add64(ip, 2), b(1), bitness))
        ELSE IF b(0) = 117 /\ n >= 2
            THEN Instruction(2, "ConditionalBranch", "Jne_rel8", "None",
                             Rel8Target(Add64(ip, 2), b(1), bitness))
        ELSE IF b(0) = 255 /\ n >= 2 /\ b(1) = 224
            THEN Instruction(2, "IndirectBranch", "Jmp_rm", "None", Zero64)
        ELSE IF b(0) = 15 /\ n >= 3 /\ b(1) = 34 /\ b(2) = 216
            THEN Instruction(3, "Next", IF bitness = 64 THEN "Mov_cr_r64" ELSE "Mov_cr_r32",
                             "CR3", Zero64)
        ELSE IF b(0) = 15 /\ n >= 3 /\ b(1) = 34 /\ b(2) = 192
            THEN Instruction(3, "Next", IF bitness = 64 THEN "Mov_cr_r64" ELSE "Mov_cr_r32",
                             "CR0", Zero64)
        ELSE InvalidInstruction

\* a classification by the flow control alone
InstructionClassByFlow(instruction) ==
    CASE instruction.flow_control \in {"Next", "XbeginXabortXend"} ->
            IF /\ instruction.code \in {"Mov_cr_r32", "Mov_cr_r64"}
               /\ instruction.op0_register = "CR3"
            THEN "MovCr3" ELSE "Other"
      [] instruction.flow_control = "ConditionalBranch" -> "CondBranch"
      [] instruction.flow_control = "UnconditionalBranch" -> "JumpDirect"
      [] instruction.flow_control \in {"Interrupt", "Exception"} -> "FarCall"
      [] instruction.flow_control = "Return" -> "Return"
      [] instruction.flow_control = "IndirectBranch" -> "JumpIndirect"
      [] instruction.flow_control = "Call" -> "CallDirect"
      [] instruction.flow_control = "IndirectCall" -> "CallIndirect"

\* impl From<&Instruction> for InstructionClass
InstructionClass(instruction) ==
    CASE instruction.flow_control = "Next" ->
            IF /\ instruction.code \in {"Mov_cr_r32", "Mov_cr_r64"}
               /\ instruction.op0_register = "CR3"
            THEN "MovCr3" ELSE "Other"
      [] instruction.flow_control = "ConditionalBranch" -> "CondBranch"
      [] instruction.flow_control = "UnconditionalBranch" ->
            IF instruction.code \in {"Jmp_ptr1616", "Jmp_ptr1632"} THEN "FarJump"
            ELSE "JumpDirect"
      [] instruction.flow_control \in {"Interrupt", "Exception"} -> "FarCall"
      [] instruction.flow_control = "Return" ->
            IF instruction.code \in {"Retnd", "Retnq", "Retnw",
                                     "Retnd_imm16", "Retnq_imm16", "Retnw_imm16"}
            THEN "Return" ELSE "FarReturn"
      [] instruction.flow_control = "IndirectBranch" ->
            IF instruction.code \in {"Jmp_m1616", "Jmp_m1632", "Jmp_m1664"} THEN "FarJump"
            ELSE "JumpIndirect"
      [] instruction.flow_control = "Call" ->
            IF instruction.code \in {"Call_rel16", "Call_rel32_32", "Call_rel32_64"}
            THEN "CallDirect"
            ELSE IF instruction.code \in {"Vmlaunch", "Vmresume"} THEN "FarReturn"
            ELSE "FarCall"
      [] instruction.flow_control = "IndirectCall" ->
            IF instruction.code \in {"Call_m1616", "Call_m1632", "Call_m1664"} THEN "FarCall"
            ELSE "CallIndirect"
      [] instruction.flow_control = "XbeginXabortXend" -> "Other"

(***************************************************************************)
(* The opcodes of iced_x86::Code that have a flow control other than Next, *)
(* and some that have not.  FlowControl is Instruction::flow_control() of  *)
(* iced_x86, by the categories its documentation gives.                    *)
(***************************************************************************)
Conds ==
    {"Jo", "Jno", "Jb", "Jae", "Je", "Jne", "Jbe", "Ja",
     "Js", "Jns", "Jp", "Jnp", "Jl", "Jge", "Jle", "Jg"}

JccCodes ==
    {c \o f : c \in Conds,
              f \in {"_rel8_16", "_rel8_32", "_rel8_64", "_rel16", "_rel32_32", "_rel32_64"}}

LoopCodes ==
    {l \o f : l \in {"Loopne", "Loope", "Loop"},
              f \in {"_rel8_16_CX", "_rel8_32_CX", "_rel8_16_ECX", "_rel8_32_ECX",
                     "_rel8_64_ECX", "_rel8_16_RCX", "_rel8_64_RCX"}}

JrcxzCodes ==
    {"Jcxz_rel8_16", "Jcxz_rel8_32", "Jecxz_rel8_16", "Jecxz_rel8_32", "Jecxz_rel8_64",
     "Jrcxz_rel8_16", "Jrcxz_rel8_64"}

KncCodes ==
    {"VEX_KNC_Jkzd_kr_rel8_64", "VEX_KNC_Jknzd_kr_rel8_64",
     "VEX_KNC_Jkzd_kr_rel32_64", "VEX_KNC_Jknzd_kr_rel32_64"}

JmpRelCodes ==
    {"Jmp_rel16", "Jmp_rel32_32", "Jmp_rel32_64", "Jmp_rel8_16", "Jmp_rel8_32", "Jmp_rel8_64"}

UdCodes ==
    {"Ud0", "Ud0_r16_rm16", "Ud0_r32_rm32", "Ud0_r64_rm64",
     "Ud1_r16_rm16", "Ud1_r32_rm32", "Ud1_r64_rm64", "Ud2"}

RetnCodes == {"Retnw", "Retnd", "Retnq", "Retnw_imm16", "Retnd_imm16", "Retnq_imm16"}

RetfCodes == {"Retfw", "Retfd", "Retfq", "Retfw_imm16", "Retfd_imm16", "Retfq_imm16"}

VmrunCodes == {"Vmrunw", "Vmrund", "Vmrunq"}

\* opcodes that go on with the next instruction
NextCodes ==
    {"Add_rm8_r8", "Nopw", "Nopd", "Nopq", "Hlt", "Cpuid", "Wrmsr", "Push_r64",
     "Mov_cr_r32", "Mov_cr_r64", "Mov_r32_cr", "Mov_r64_cr", "Ptwrite_rm32", "Ptwrite_rm64",
     "Lkgs_rm16", "Altinst", "VEX_Vsm3rnds2_xmm_xmm_xmmm128_imm8"}

FlowControl(code) ==
    CASE code \in JccCodes \cup LoopCodes \cup JrcxzCodes \cup KncCodes -> "ConditionalBranch"
      [] code \in JmpRelCodes \cup {"Jmp_ptr1616", "Jmp_ptr1632", "Jmpe_disp16", "Jmpe_disp32"} ->
            "UnconditionalBranch"
      [] code \in {"Jmp_rm16", "Jmp_rm32", "Jmp_rm64", "Jmp_m1616", "Jmp_m1632", "Jmp_m1664",
                   "Jmpe_rm16", "Jmpe_rm32"} -> "IndirectBranch"
      [] code \in {"Call_rel16", "Call_rel32_32", "Call_rel32_64", "Call_ptr1616",
                   "Call_ptr1632", "Syscall", "Sysenter", "Vmlaunch", "Vmresume", "Vmcall",
                   "Vmmcall", "Vmgexit", "Vmgexit_F2", "Tdcall", "Seamcall", "Seamret"}
                  \cup VmrunCodes -> "Call"
      [] code \in {"Call_rm16", "Call_rm32", "Call_rm64",
                   "Call_m1616", "Call_m1632", "Call_m1664"} -> "IndirectCall"
      [] code \in RetnCodes \cup RetfCodes
                  \cup {"Iretw", "Iretd", "Iretq", "Sysretd", "Sysretq", "Sysexitd",
                        "Sysexitq", "Uiret", "Erets", "Eretu", "Rsm", "Skinit", "Rdm"} ->
            "Return"
      [] code \in {"Int_imm8", "Int3", "Int1", "Into", "Smint", "Smint_0F7E", "Dmint"} ->
            "Interrupt"
      [] code \in UdCodes -> "Exception"
      [] code \in {"Xbegin_rel16", "Xbegin_rel32", "Xabort_imm8", "Xend"} -> "XbeginXabortXend"
      [] OTHER -> "Next"

\* Instruction::new() followed by set_code(code); the register is that of a
\* decoded instruction
WithCode(code, op0_register) == Instruction(0, FlowControl(code), code, op0_register, Zero64)

\* test::class_from_instruction_raw, the table written by hand
class_from_instruction_raw(instruction) ==
    LET code == instruction.code
    IN  CASE code \in {"Call_rm16", "Call_rm32", "Call_rm64"} -> "CallIndirect"
          [] code \in {"Call_rel16", "Call_rel32_32", "Call_rel32_64"} -> "CallDirect"
          [] code \in JccCodes \cup JrcxzCodes \cup LoopCodes -> "CondBranch"
          [] code \in {"Call_ptr1616", "Call_ptr1632", "Call_m1616", "Call_m1632",
                       "Call_m1664", "Int_imm8", "Int3", "Into", "Int1", "Syscall",
                       "Sysenter", "Vmcall"} \cup UdCodes -> "FarCall"
          [] code \in {"Jmp_m1616", "Jmp_m1632", "Jmp_m1664", "Jmp_ptr1616", "Jmp_ptr1632"} ->
                "FarJump"
          [] code \in {"Iretd", "Iretw", "Iretq", "Sysexitd", "Sysexitq", "Sysretd",
                       "Sysretq", "Vmlaunch", "Vmresume", "Uiret", "Erets", "Eretu"}
                      \cup RetfCodes -> "FarReturn"
          [] code \in {"Jmp_rm16", "Jmp_rm32", "Jmp_rm64"} -> "JumpIndirect"
          [] code \in JmpRelCodes -> "JumpDirect"
          [] code \in {"Mov_cr_r64", "Mov_cr_r32"} /\ instruction.op0_register = "CR3" ->
                "MovCr3"
          [] code \in {"Retnd", "Retnq", "Retnw", "Retnd_imm16", "Retnq_imm16",
                       "Retnw_imm16"} -> "Return"
          [] OTHER -> "Other"

\* the opcodes test::from_works steps over
Unsupported ==
    {"Jmpe_disp16", "Jmpe_disp32", "Jmpe_rm16", "Jmpe_rm32", "Vmmcall", "Skinit",
     "Vmgexit", "Smint", "Dmint", "Rdm", "Smint_0F7E", "Altinst", "Vmgexit_F2", "Rsm",
     "Tdcall", "Seamret", "Seamcall"} \cup VmrunCodes \cup KncCodes

\* a next_ip that asks for the trace at every instruction without a static target
next_ip_asking(ins) ==
    IF InstructionClass(ins) \in {"JumpDirect", "CallDirect"} THEN "Some" ELSE "Err"

\* next_ip: "None", "Some" (a static target) or "Err" (the trace is needed)
next_ip(ins) ==
    LET class == InstructionClass(ins)
    IN  IF class = "Other" THEN "None"
        ELSE IF class \in {"JumpDirect", "CallDirect"} THEN "Some"
        ELSE "Err"

\* ProceedInstStopReason; `at` is history, the address of the instruction the
\* walk stopped on, which the program does not keep
StopReason(kind, to, at) == [kind |-> kind, to |-> to, at |-> at]

\* the stop reason of the instruction at `at` that the walk breaks on
StopReasonOf(ins, at) ==
    LET class == InstructionClass(ins)
    IN  CASE class = "CondBranch" -> StopReason("CondBranch", ins.near_branch, at)
          [] class = "Return" -> StopReason("Return", Zero64, at)
          [] class \in {"JumpIndirect", "CallIndirect"} -> StopReason("Indirect", Zero64, at)
          [] class \in {"FarCall", "FarReturn", "FarJump"} ->
                StopReason("FarIndirect", Zero64, at)
          [] class = "MovCr3" -> StopReason("MovCr3", Zero64, at)
          [] OTHER -> StopReason("unreachable", Zero64, at)

UntilIpReached == StopReason("UntilIpReached", Zero64, Zero64)
NoReason == StopReason("none", Zero64, Zero64)

(***************************************************************************)
(* The program state.                                                      *)
(*   builder             PtCoverageDecoderBuilder: images, filter          *)
(*   pt_trace, pos, last_psb   PtPacketDecoder: buffer, cursor, last sync  *)
(*   coverage            the caller's map, borrowed by the call            *)
(*   is_syncd, state, proceed_inst_cache   PtCoverageDecoder               *)
(*   pc, result          where the caller is, and what coverage() returned *)
(*   overflow_checks     the build profile (panic or wrap on overflow)     *)
(*   calls, first        calls of coverage() made, and what the first was  *)
(*   pge_open            history: a TipPge has come and no TipPgd since    *)
(*   seen_pip            history: the last Pip observed ("none" before)    *)
(*   last                history: the result and the events of a step      *)
(*   inst                an instruction handed to InstructionClass::from  *)
(*   packet, iterator    a caller of the packet layer: the packet that     *)
(*                       next() yielded, and the TntIter made from it      *)
(***************************************************************************)
VARIABLES builder, pt_trace, pos, last_psb, coverage, is_syncd, state,
          proceed_inst_cache, pc, result, overflow_checks, calls, first,
          pge_open, seen_pip, last, packet, iterator, inst

vars == <<builder, pt_trace, pos, last_psb, coverage, is_syncd, state,
          proceed_inst_cache, pc, result, overflow_checks, calls, first,
          pge_open, seen_pip, last, packet, iterator, inst>>

\* results: Ok, a PtDecoderError, or an outcome that is no return at all
Ok == [tag |-> "Ok", address |-> Zero64, packets |-> <<>>]
Err(tag) == [tag |-> tag, address |-> Zero64, packets |-> <<>>]
MissingImage(address) == [tag |-> "MissingImage", address |-> address, packets |-> <<>>]
InvalidPacketSequence(packets) ==
    [tag |-> "InvalidPacketSequence", address |-> Zero64, packets |-> packets]
Panic == Err("Panic")
Hang == Err("Hang")

\* ExecutionState::new
ExecutionState_new ==
    [packet_en |-> FALSE,
     pip |-> <<0, 0, 0, 0, 0, 0>>,
     tip_last_ip |-> Zero64,
     ip |-> Zero64,
     vmcs |-> <<>>,
     mode_exec |-> 0,
     mode_tsx |-> 0,
     save_coverage |-> TRUE]

NoEvents == [packets |-> <<>>, walks |-> <<>>, edges |-> <<>>]

\* the engine in the middle of a step: the fields a handler reads and writes,
\* the result so far (res), the value the last call returned (ret), the events
\* of the step, and the history (pge_open, seen_pip, decision)
Machine ==
    [state |-> state, cache |-> proceed_inst_cache, pos |-> pos, last_psb |-> last_psb,
     coverage |-> coverage, res |-> Ok, ret |-> NoPacket, pge_open |-> pge_open,
     seen_pip |-> seen_pip, decision |-> NoReason, events |-> NoEvents]

Failed(m) == m.res.tag # "Ok"

\* let v be the value handed to F: a local binding evaluated once
Let(v, F(_)) == F(v)

Fail(m, e) == [m EXCEPT !.res = e]

(***************************************************************************)
(* ExecutionState::new_inst_decoder and reposition_inst_decoder.  A        *)
(* decoder is [image, position, ip, bitness]; [ok, dec] is the Result.     *)
(***************************************************************************)
Decoder(image, position, ip, bitness) ==
    [image |-> image, position |-> position, ip |-> ip, bitness |-> bitness]

NoDecoder == [ok |-> FALSE, dec |-> Decoder(0, 0, Zero64, 16)]

ImageContains(image, ip) ==
    Le64(virtual_address_start(image), ip) /\ Le64(ip, virtual_address_end(image))

new_inst_decoder(ip, mode_exec) ==
    Let({i \in 1..Len(builder.images) : ImageContains(builder.images[i], ip)}, LAMBDA found :
    IF found = {} THEN NoDecoder
    ELSE Let(CHOOSE j \in found : \A k \in found : j <= k, LAMBDA i :
         [ok |-> TRUE,
          dec |-> Decoder(i, Small64(Sub64(ip, virtual_address_start(builder.images[i]))),
                          ip, addressing_mode(mode_exec))]))

reposition_inst_decoder(ip, mode_exec, inst_decoder) ==
    Let(Sub64(inst_decoder.ip, U64(inst_decoder.position)), LAMBDA current_image_start :
    Let(Small64(Sub64(ip, current_image_start)), LAMBDA offset :
    IF /\ Le64(current_image_start, ip)
       /\ offset >= 0
       /\ offset <= Len(builder.images[inst_decoder.image].data)
    THEN [ok |-> TRUE, dec |-> [inst_decoder EXCEPT !.position = offset, !.ip = ip]]
    ELSE new_inst_decoder(ip, mode_exec)))

can_decode(inst_decoder) ==
    inst_decoder.position < Len(builder.images[inst_decoder.image].data)

\* the loop of proceed_inst_until; ip is self.state.ip.  [kind, ip, res, ins, at]:
\* kind is "until", "break", "err" or "hang" (the loop comes back to a
\* configuration it has been in, so it never ends); at is the address of ins
RECURSIVE WalkLoop(_, _, _, _, _)
WalkLoop(ip, mode_exec, inst_decoder, until, seen) ==
    IF until # <<>> /\ inst_decoder.ip = until[1]
    THEN [kind |-> "until", ip |-> ip, res |-> Ok, ins |-> InvalidInstruction, at |-> ip]
    ELSE IF <<ip, inst_decoder>> \in seen
    THEN [kind |-> "hang", ip |-> ip, res |-> Hang, ins |-> InvalidInstruction, at |-> ip]
    ELSE
    Let(IF can_decode(inst_decoder) THEN [ok |-> TRUE, dec |-> inst_decoder]
        ELSE reposition_inst_decoder(ip, mode_exec, inst_decoder), LAMBDA d1 :
    IF ~d1.ok
    THEN [kind |-> "err", ip |-> ip, res |-> MissingImage(ip), ins |-> InvalidInstruction,
          at |-> ip]
    ELSE
    Let(Decode(d1.dec.bitness, builder.images[d1.dec.image].data, d1.dec.position, d1.dec.ip),
        LAMBDA ins :
    Let([d1.dec EXCEPT !.position = @ + ins.len, !.ip = Add64(@, ins.len)], LAMBDA d2 :
    Let(next_ip(ins), LAMBDA next :
    IF ins.code = "INVALID"
    THEN [kind |-> "err", ip |-> ip, res |-> Err("MalformedInstruction"), ins |-> ins,
          at |-> d1.dec.ip]
    ELSE IF next = "None"
    THEN WalkLoop(ip, mode_exec, d2, until, seen \cup {<<ip, inst_decoder>>})
    ELSE IF next = "Some"
    THEN Let(reposition_inst_decoder(ins.near_branch, mode_exec, d2), LAMBDA r :
         IF ~r.ok
         THEN [kind |-> "err", ip |-> ins.near_branch,
               res |-> MissingImage(ins.near_branch), ins |-> ins, at |-> d1.dec.ip]
         ELSE WalkLoop(ins.near_branch, mode_exec, r.dec, until,
                       seen \cup {<<ip, inst_decoder>>}))
    ELSE [kind |-> "break", ip |-> d2.ip, res |-> Ok, ins |-> ins, at |-> d1.dec.ip]))))

\* history: the walk is added to the events of the step, and the reason it
\* stopped for is remembered as the last decision
LogWalk(m, before, until, reason, cached) ==
    [m EXCEPT !.decision = reason,
              !.events.walks =
        Append(@, [packet_en |-> before.state.packet_en, from |-> before.state.ip,
                   until |-> until, res |-> m.res.tag, reason |-> reason,
                   ip |-> m.state.ip, cached |-> cached,
                   mode_exec |-> before.state.mode_exec])]

\* the end of proceed_inst_until: self.state.ip becomes ip, the stop reason of
\* the loop's outcome w is returned and cached, the walk having started at m
WalkEndAt(m, until, w, ip) ==
    IF w.kind = "until"
    THEN LogWalk([m EXCEPT !.state.ip = ip, !.ret = UntilIpReached],
                 m, until, UntilIpReached, FALSE)
    ELSE IF w.kind \in {"err", "hang"}
    THEN LogWalk([m EXCEPT !.state.ip = ip, !.res = w.res], m, until, NoReason, FALSE)
    ELSE Let(StopReasonOf(w.ins, w.at), LAMBDA ret :
         IF ret.kind = "unreachable"
         THEN LogWalk([m EXCEPT !.state.ip = ip, !.res = Panic], m, until, NoReason, FALSE)
         ELSE LogWalk([m EXCEPT !.state.ip = ip, !.ret = ret,
                                !.cache = (m.state.ip :> [ip |-> ip, reason |-> ret]) @@ @],
                      m, until, ret, FALSE))

\* an end of the walk that leaves self.state.ip on the instruction it stopped on
WalkEndOnDecision(m, until, w) == WalkEndAt(m, until, w, w.at)

\* the end of the walk as the program has it: self.state.ip = inst_decoder.ip()
WalkEnd(m, until, w) == WalkEndAt(m, until, w, w.ip)

\* proceed_inst_until once packet_en has been checked: the cache, then the walk
WalkFrom(m, until) ==
    IF until = <<>> /\ m.state.ip \in DOMAIN m.cache
    THEN Let(m.cache[m.state.ip], LAMBDA c :
         LogWalk([m EXCEPT !.state.ip = c.ip, !.ret = c.reason], m, until, c.reason, TRUE))
    ELSE
    Let(new_inst_decoder(m.state.ip, m.state.mode_exec), LAMBDA nd :
    IF ~nd.ok THEN LogWalk(Fail(m, MissingImage(m.state.ip)), m, until, NoReason, FALSE)
    ELSE WalkEnd(m, until, WalkLoop(m.state.ip, m.state.mode_exec, nd.dec, until, {})))

\* a walk that does not look at packet_en
proceed_inst_until_unguarded(m, until) == WalkFrom(m, until)

\* PtCoverageDecoder::proceed_inst_until; the stop reason is left in ret
proceed_inst_until(m, until) ==
    IF ~m.state.packet_en
    THEN LogWalk(Fail(m, Err("IncoherentState")), m, until, NoReason, FALSE)
    ELSE WalkFrom(m, until)

(***************************************************************************)
(* The packet decoder (src/packet/decoder.rs)                              *)
(***************************************************************************)
\* the 16-byte PSB pattern: 02 82 eight times
PsbPattern == <<2, 130, 2, 130, 2, 130, 2, 130, 2, 130, 2, 130, 2, 130, 2, 130>>

\* first_psb_position (packet/psb.rs): the offset of the first PSB pattern, or -1
first_psb_position(buffer) ==
    LET hits == {i \in 0..(Len(buffer) - PSB_SIZE) :
                    SubSeq(buffer, i + 1, i + PSB_SIZE) = PsbPattern}
    IN  IF hits = {} THEN -1 ELSE CHOOSE i \in hits : \A j \in hits : i <= j

\* a decoder that checks for a Psb but leaves the cursor at the start
PtPacketDecoder_unpositioned(buffer) ==
    [ok |-> first_psb_position(buffer) >= 0, pos |-> 0, last_psb |-> 0]

\* PtPacketDecoder::new: [ok, pos, last_psb]
PtPacketDecoder_new(buffer) ==
    LET sync == first_psb_position(buffer)
    IN  IF sync < 0 THEN [ok |-> FALSE, pos |-> 0, last_psb |-> 0]
        ELSE [ok |-> TRUE, pos |-> sync, last_psb |-> sync]

\* PtPacketDecoder::new_not_syncd: the cursor at the start of the buffer
new_not_syncd(buffer) == [ok |-> TRUE, pos |-> 0, last_psb |-> 0]

\* a decoder that steps over the byte it could not make a packet of
next_packet_advancing(m) ==
    Let(parse(pt_trace, m.pos), LAMBDA r :
    IF r.res = "Ok"
    THEN [m EXCEPT !.pos = r.pos,
                   !.last_psb = IF r.pkt.kind = "Psb" THEN r.pos - PSB_SIZE ELSE @,
                   !.ret = r.pkt,
                   !.events.packets =
                       Append(@, [kind |-> r.pkt.kind,
                                  start |-> r.pos - original_size(r.pkt),
                                  end |-> r.pos])]
    ELSE [m EXCEPT !.pos = IF r.res = "MalformedPacket" THEN r.pos + 1 ELSE r.pos,
                   !.res = Err(r.res),
                   !.events.packets =
                       Append(@, [kind |-> r.res, start |-> r.pos, end |-> r.pos])])

\* PtPacketDecoder::next_packet; the packet is left in ret
next_packet(m) ==
    Let(parse(pt_trace, m.pos), LAMBDA r :
    IF r.res = "Ok"
    THEN [m EXCEPT !.pos = r.pos,
                   !.last_psb = IF r.pkt.kind = "Psb" THEN r.pos - PSB_SIZE ELSE @,
                   !.ret = r.pkt,
                   !.events.packets =
                       Append(@, [kind |-> r.pkt.kind,
                                  start |-> r.pos - original_size(r.pkt),
                                  end |-> r.pos])]
    ELSE [m EXCEPT !.pos = r.pos, !.res = Err(r.res),
                   !.events.packets =
                       Append(@, [kind |-> r.res, start |-> r.pos, end |-> r.pos])])

\* PtPacketDecoder::rollback_one_packet: the cursor goes back by the packet's size
rollback_one_packet(m, p) == [m EXCEPT !.pos = @ - original_size(p)]

(***************************************************************************)
(* The handlers of PtCoverageDecoder                                       *)
(***************************************************************************)
\* the greatest value of the bucket type, u8
BucketMax == 255

\* history: an edge handed to add_coverage_entry, with the state it met
Edge(m, to_ip, index, recorded) ==
    [from |-> m.state.ip, to |-> to_ip, index |-> index, recorded |-> recorded,
     before |-> m.coverage, pos |-> m.pos, packet_en |-> m.state.packet_en,
     mode_exec |-> m.state.mode_exec, pge_open |-> m.pge_open, seen_pip |-> m.seen_pip,
     decision |-> m.decision]

\* an increment that saturates: a full bucket stays full
add_coverage_entry_saturating(m, to_ip) ==
    IF ~m.state.save_coverage
    THEN [m EXCEPT !.events.edges = Append(@, Edge(m, to_ip, 0, FALSE))]
    ELSE
    Let(coverage_entry(m.state.ip, to_ip, Len(m.coverage)), LAMBDA cov_entry :
    [m EXCEPT !.events.edges = Append(@, Edge(m, to_ip, cov_entry, TRUE)),
              !.coverage[cov_entry + 1] = IF @ = BucketMax THEN @ ELSE @ + 1])

\* coverage[cov_entry] += 1.into(): on overflow the build either panics
\* (overflow checks) or wraps
add_coverage_entry(m, to_ip) ==
    IF ~m.state.save_coverage
    THEN [m EXCEPT !.events.edges = Append(@, Edge(m, to_ip, 0, FALSE))]
    ELSE
    Let(coverage_entry(m.state.ip, to_ip, Len(m.coverage)), LAMBDA cov_entry :
    Let([m EXCEPT !.events.edges = Append(@, Edge(m, to_ip, cov_entry, TRUE))],
        LAMBDA logged :
    IF m.coverage[cov_entry + 1] = BucketMax /\ overflow_checks THEN Fail(logged, Panic)
    ELSE [logged EXCEPT !.coverage[cov_entry + 1] = (@ + 1) % (BucketMax + 1)]))

\* tip.ip(&mut self.state.tip_last_ip): the state after the call, the bool in ret
ApplyIp(m, p) ==
    Let(TipIp(p, m.state.tip_last_ip), LAMBDA t :
    [m EXCEPT !.state.tip_last_ip = t.last_ip, !.ret = t.ok])

handle_fup_after_ovf(m, fup) ==
    Let(ApplyIp(m, fup), LAMBDA a :
    IF ~a.ret THEN Fail(a, Err("MalformedPacket"))
    ELSE [a EXCEPT !.state.ip = a.state.tip_last_ip])

\* a standalone Fup that accepts every stop reason
handle_standalone_fup_lenient(m, fup) ==
    Let(ApplyIp(m, fup), LAMBDA a :
    IF ~a.ret THEN Fail(a, Err("MalformedPacket"))
    ELSE proceed_inst_until(a, <<a.state.tip_last_ip>>))

handle_standalone_fup(m, fup) ==
    Let(ApplyIp(m, fup), LAMBDA a :
    IF ~a.ret THEN Fail(a, Err("MalformedPacket"))
    ELSE Let(proceed_inst_until(a, <<a.state.tip_last_ip>>), LAMBDA w :
         IF Failed(w) THEN w
         ELSE IF w.ret.kind = "UntilIpReached" THEN w
         ELSE Fail(w, Err("IncoherentImage"))))

\* history: the non-root-VMX bit of the Pip just observed
Observed(pip) == IF non_root_vmx(pip.raw) THEN "set" ELSE "clear"

\* a Pip that also resets the running last IP
handle_async_pip_resetting(m, pip) ==
    [m EXCEPT !.state.save_coverage =
                  IF builder.filter_vmx_non_root THEN non_root_vmx(pip.raw) ELSE @,
              !.state.pip = pip.raw,
              !.state.tip_last_ip = Zero64,
              !.seen_pip = Observed(pip)]

handle_async_pip(m, pip) ==
    [m EXCEPT !.state.save_coverage =
                  IF builder.filter_vmx_non_root THEN non_root_vmx(pip.raw) ELSE @,
              !.state.pip = pip.raw,
              !.seen_pip = Observed(pip)]

\* a Pip handler that stores the Pip before it walks
handle_pip_storing_first(m, pip) ==
    IF ~m.state.packet_en THEN handle_async_pip(m, pip)
    ELSE Let(proceed_inst_until(handle_async_pip(m, pip), <<>>), LAMBDA w :
         IF Failed(w) THEN w
         ELSE IF w.ret.kind \in {"CondBranch", "Indirect", "Return"}
         THEN Fail(w, Err("IncoherentImage"))
         ELSE w)

handle_pip(m, pip) ==
    IF ~m.state.packet_en THEN handle_async_pip(m, pip)
    ELSE Let(proceed_inst_until(m, <<>>), LAMBDA w :
         IF Failed(w) THEN w
         ELSE IF w.ret.kind \in {"CondBranch", "Indirect", "Return"}
         THEN Fail(w, Err("IncoherentImage"))
         ELSE IF w.ret.kind = "UntilIpReached" THEN Fail(w, Panic)
         ELSE handle_async_pip(w, pip))

handle_async_tip(m, tip) ==
    Let(ApplyIp(m, tip), LAMBDA a :
    IF a.ret THEN [a EXCEPT !.state.ip = a.state.tip_last_ip]
    ELSE Fail(a, InvalidPacketSequence(<<tip>>)))

handle_async_tip_pgd(m, tip_pgd) ==
    Let(ApplyIp([m EXCEPT !.state.packet_en = FALSE, !.pge_open = FALSE], tip_pgd), LAMBDA a :
    IF a.ret THEN [a EXCEPT !.state.ip = a.state.tip_last_ip] ELSE a)

\* a TipPgd handler that refuses MovCr3 with and without an IP
handle_tip_pgd_strict(m, tip_pgd) ==
    Let(ApplyIp(m, tip_pgd), LAMBDA a :
    Let(proceed_inst_until(a, IF a.ret THEN <<a.state.tip_last_ip>> ELSE <<>>), LAMBDA w :
    IF Failed(w) THEN w
    ELSE IF w.ret.kind = "MovCr3"
    THEN Fail([w EXCEPT !.state.packet_en = FALSE, !.pge_open = FALSE], Err("IncoherentImage"))
    ELSE IF ~a.ret /\ w.ret.kind = "UntilIpReached" THEN Fail(w, Panic)
    ELSE [w EXCEPT !.state.packet_en = FALSE, !.pge_open = FALSE]))

handle_tip_pgd(m, tip_pgd) ==
    Let(ApplyIp(m, tip_pgd), LAMBDA a :
    Let(proceed_inst_until(a, IF a.ret THEN <<a.state.tip_last_ip>> ELSE <<>>), LAMBDA w :
    IF Failed(w) THEN w
    ELSE IF a.ret /\ w.ret.kind = "MovCr3"
    THEN Fail([w EXCEPT !.state.packet_en = FALSE, !.pge_open = FALSE], Err("IncoherentImage"))
    ELSE IF ~a.ret /\ w.ret.kind = "UntilIpReached" THEN Fail(w, Panic)
    ELSE [w EXCEPT !.state.packet_en = FALSE, !.pge_open = FALSE]))

\* a TipPge handler that sets the IP and leaves packet_en as it is
handle_tip_pge_keeping(m, tip_pge) ==
    Let(ApplyIp(m, tip_pge), LAMBDA a :
    IF a.ret THEN [a EXCEPT !.state.ip = a.state.tip_last_ip, !.pge_open = TRUE]
    ELSE Fail(a, Err("MalformedPacket")))

handle_tip_pge(m, tip_pge) ==
    Let(ApplyIp(m, tip_pge), LAMBDA a :
    IF a.ret
    THEN [a EXCEPT !.state.packet_en = TRUE, !.state.ip = a.state.tip_last_ip,
                   !.pge_open = TRUE]
    ELSE Fail(a, Err("MalformedPacket")))

\* self.add_coverage_entry(tip.ip(..)); self.state.ip = self.state.tip_last_ip
FollowTip(m, tip) ==
    Let(ApplyIp(m, tip), LAMBDA a :
    IF ~a.ret THEN Fail(a, Err("MalformedPacket"))
    ELSE Let(add_coverage_entry(a, a.state.tip_last_ip), LAMBDA c :
         IF Failed(c) THEN c ELSE [c EXCEPT !.state.ip = c.state.tip_last_ip]))

\* a Tip handler that decompresses the Tip's address before it walks
proceed_inst_tip_applying(m, tip) ==
    Let(ApplyIp(m, tip), LAMBDA a :
    Let(proceed_inst_until(a, <<>>), LAMBDA w :
    IF Failed(w) THEN w
    ELSE IF w.ret.kind \in {"Indirect", "FarIndirect", "Return"}
    THEN IF ~a.ret THEN Fail(w, Err("MalformedPacket"))
         ELSE Let(add_coverage_entry(w, w.state.tip_last_ip), LAMBDA c :
              IF Failed(c) THEN c ELSE [c EXCEPT !.state.ip = c.state.tip_last_ip])
    ELSE IF w.ret.kind \in {"CondBranch", "MovCr3"} THEN Fail(w, Err("IncoherentImage"))
    ELSE Fail(w, Panic)))

proceed_inst_tip(m, tip) ==
    Let(proceed_inst_until(m, <<>>), LAMBDA w :
    IF Failed(w) THEN w
    ELSE IF w.ret.kind \in {"Indirect", "FarIndirect", "Return"} THEN FollowTip(w, tip)
    ELSE IF w.ret.kind \in {"CondBranch", "MovCr3"} THEN Fail(w, Err("IncoherentImage"))
    ELSE Fail(w, Panic))

\* an 'inst loop in which the Tip that follows an indirect uses the bit up
InstLoopConsuming(m, tnt) ==
    Let(proceed_inst_until(m, <<>>), LAMBDA w :
    IF Failed(w) THEN w
    ELSE IF w.ret.kind = "CondBranch"
    THEN IF ~tnt THEN w
         ELSE Let(add_coverage_entry(w, w.ret.to), LAMBDA taken :
              IF Failed(taken) THEN taken ELSE [taken EXCEPT !.state.ip = w.ret.to])
    ELSE IF w.ret.kind \in {"Indirect", "FarIndirect", "Return"}
    THEN Let(next_packet(w), LAMBDA d :
         IF Failed(d) THEN d
         ELSE IF d.ret.kind # "Tip" THEN Fail(d, InvalidPacketSequence(<<d.ret>>))
         ELSE FollowTip(d, d.ret))
    ELSE IF w.ret.kind = "MovCr3" THEN Fail(w, Err("IncoherentImage"))
    ELSE Fail(w, Panic))

\* the 'inst loop of proceed_inst_tnt for one TNT bit
RECURSIVE InstLoop(_, _)
InstLoop(m, tnt) ==
    Let(proceed_inst_until(m, <<>>), LAMBDA w :
    IF Failed(w) THEN w
    ELSE IF w.ret.kind = "CondBranch"
    THEN IF ~tnt THEN w
         ELSE Let(add_coverage_entry(w, w.ret.to), LAMBDA taken :
              IF Failed(taken) THEN taken ELSE [taken EXCEPT !.state.ip = w.ret.to])
    ELSE IF w.ret.kind \in {"Indirect", "FarIndirect", "Return"}
    THEN Let(next_packet(w), LAMBDA d :
         IF Failed(d) THEN d
         ELSE IF d.ret.kind # "Tip" THEN Fail(d, InvalidPacketSequence(<<d.ret>>))
         ELSE Let(FollowTip(d, d.ret), LAMBDA c :
              IF Failed(c) THEN c ELSE InstLoop(c, tnt)))
    ELSE IF w.ret.kind = "MovCr3" THEN Fail(w, Err("IncoherentImage"))
    ELSE Fail(w, Panic))

\* a loop over the bits of the TNT packet that begins with the last one
RECURSIVE proceed_inst_tnt_from_last(_, _)
proceed_inst_tnt_from_last(m, tnt_iter) ==
    IF tnt_iter = <<>> THEN m
    ELSE Let(InstLoop(m, tnt_iter[Len(tnt_iter)]), LAMBDA n :
         IF Failed(n) THEN n
         ELSE proceed_inst_tnt_from_last(n, SubSeq(tnt_iter, 1, Len(tnt_iter) - 1)))

\* proceed_inst_tnt: the loop over the bits of the TNT packet
RECURSIVE proceed_inst_tnt(_, _)
proceed_inst_tnt(m, tnt_iter) ==
    IF tnt_iter = <<>> THEN m
    ELSE Let(InstLoop(m, Head(tnt_iter)), LAMBDA n :
         IF Failed(n) THEN n ELSE proceed_inst_tnt(n, Tail(tnt_iter)))

\* the loop of handle_fup, after the standalone Fup has been applied
RECURSIVE FupLoop(_, _)
FupLoop(m, fup) ==
    Let(next_packet(m), LAMBDA d :
    IF Failed(d) THEN d
    ELSE IF d.ret.kind = "Pip" THEN FupLoop(handle_async_pip(d, d.ret), fup)
    ELSE IF d.ret.kind \in {"Vmcs", "ModeExec"} THEN Fail(d, Panic)
    ELSE IF d.ret.kind = "Tip" THEN handle_async_tip(d, d.ret)
    ELSE IF d.ret.kind = "TipPgd" THEN handle_async_tip_pgd(d, d.ret)
    ELSE Fail(d, InvalidPacketSequence(<<fup, d.ret>>)))

handle_fup(m, fup) ==
    Let(handle_standalone_fup(m, fup), LAMBDA s :
    IF Failed(s) THEN s ELSE FupLoop(s, fup))

\* a ModeExec handler that updates mode_exec before the packet that follows
handle_mode_exec_eager(m, mode_exec) ==
    Let(next_packet([m EXCEPT !.state.mode_exec = mode_exec.raw[1]]), LAMBDA d :
    IF Failed(d) THEN d
    ELSE CASE d.ret.kind = "Tip" -> proceed_inst_tip(d, d.ret)
           [] d.ret.kind = "TipPge" -> handle_tip_pge(d, d.ret)
           [] d.ret.kind = "Fup" -> handle_standalone_fup(d, d.ret)
           [] OTHER -> Fail(d, InvalidPacketSequence(<<mode_exec, d.ret>>)))

handle_mode_exec(m, mode_exec) ==
    Let(next_packet(m), LAMBDA d :
    IF Failed(d) THEN d
    ELSE Let(CASE d.ret.kind = "Tip" -> proceed_inst_tip(d, d.ret)
               [] d.ret.kind = "TipPge" -> handle_tip_pge(d, d.ret)
               [] d.ret.kind = "Fup" -> handle_standalone_fup(d, d.ret)
               [] OTHER -> Fail(d, InvalidPacketSequence(<<mode_exec, d.ret>>)), LAMBDA h :
         IF Failed(h) THEN h ELSE [h EXCEPT !.state.mode_exec = mode_exec.raw[1]]))

\* the end of handle_mode_tsx for an abort: the packet after the Fup
ModeTsxAbort(m, mode_tsx, fup) ==
    Let(next_packet(m), LAMBDA d :
    IF Failed(d) THEN d
    ELSE CASE d.ret.kind = "Tip" -> proceed_inst_tip(d, d.ret)
           [] d.ret.kind = "TipPge" -> handle_tip_pge(d, d.ret)
           [] d.ret.kind = "TipPgd" -> handle_tip_pgd(d, d.ret)
           [] OTHER -> Fail(d, InvalidPacketSequence(<<mode_tsx, fup, d.ret>>)))

\* a ModeTsx handler that expects its Fup whether tracing is enabled or not
handle_mode_tsx_unguarded(m, mode_tsx) ==
    Let(next_packet(m), LAMBDA d :
    IF Failed(d) THEN d
    ELSE IF d.ret.kind # "Fup" THEN Fail(d, InvalidPacketSequence(<<mode_tsx, d.ret>>))
    ELSE Let(handle_standalone_fup(d, d.ret), LAMBDA s :
         IF Failed(s) THEN s
         ELSE Let(IF mode_tsx.raw[1] = 2 THEN ModeTsxAbort(s, mode_tsx, d.ret) ELSE s,
                  LAMBDA h :
              IF Failed(h) THEN h ELSE [h EXCEPT !.state.mode_tsx = mode_tsx.raw[1]])))

handle_mode_tsx(m, mode_tsx) ==
    IF ~m.state.packet_en THEN [m EXCEPT !.state.mode_tsx = mode_tsx.raw[1]]
    ELSE
    Let(next_packet(m), LAMBDA d :
    IF Failed(d) THEN d
    ELSE IF d.ret.kind # "Fup" THEN Fail(d, InvalidPacketSequence(<<mode_tsx, d.ret>>))
    ELSE Let(handle_standalone_fup(d, d.ret), LAMBDA s :
         IF Failed(s) THEN s
         ELSE Let(IF mode_tsx.raw[1] = 2 THEN ModeTsxAbort(s, mode_tsx, d.ret) ELSE s,
                  LAMBDA h :
              IF Failed(h) THEN h ELSE [h EXCEPT !.state.mode_tsx = mode_tsx.raw[1]])))

\* an Ovf handler that does not give the packet it has looked at back
handle_ovf_skipping(m) ==
    Let(next_packet(m), LAMBDA d :
    IF Failed(d) THEN d
    ELSE IF d.ret.kind = "Fup"
    THEN handle_fup_after_ovf([d EXCEPT !.state.packet_en = TRUE], d.ret)
    ELSE [d EXCEPT !.state.packet_en = FALSE])

handle_ovf(m) ==
    Let(next_packet(m), LAMBDA d :
    IF Failed(d) THEN d
    ELSE IF d.ret.kind = "Fup"
    THEN handle_fup_after_ovf([d EXCEPT !.state.packet_en = TRUE], d.ret)
    ELSE rollback_one_packet([d EXCEPT !.state.packet_en = FALSE], d.ret))

\* decode_psbplus_fup: [ok, last_ip]
decode_psbplus_fup(fup, last_ip) == TipIp(fup, last_ip)

\* the Fup arm of decode_psbplus
PsbFup(st, f) ==
    IF f.ok THEN [st EXCEPT !.packet_en = TRUE, !.tip_last_ip = f.last_ip, !.ip = f.last_ip]
    ELSE [st EXCEPT !.packet_en = FALSE]

\* the loop of decode_psbplus; st is the state being rebuilt
RECURSIVE PsbLoop(_, _)
PsbLoop(m, st) ==
    Let(next_packet(m), LAMBDA d :
    IF Failed(d) THEN d
    ELSE IF d.ret.kind = "PsbEnd" THEN [d EXCEPT !.state = st]
    ELSE IF d.ret.kind = "Pip"
    THEN PsbLoop([d EXCEPT !.seen_pip = Observed(d.ret)], [st EXCEPT !.pip = d.ret.raw])
    ELSE IF d.ret.kind = "Vmcs" THEN PsbLoop(d, [st EXCEPT !.vmcs = <<d.ret.raw>>])
    ELSE IF d.ret.kind = "ModeTsx" THEN PsbLoop(d, [st EXCEPT !.mode_tsx = d.ret.raw[1]])
    ELSE IF d.ret.kind = "ModeExec" THEN PsbLoop(d, [st EXCEPT !.mode_exec = d.ret.raw[1]])
    ELSE IF d.ret.kind = "Fup"
    THEN PsbLoop(d, PsbFup(st, decode_psbplus_fup(d.ret, st.tip_last_ip)))
    ELSE IF d.ret.kind = "Ovf" THEN Fail(d, Panic)
    ELSE Fail(d, Err("MalformedPsbPlus")))

\* a recovery that goes on from the state the engine was in
decode_psbplus_resuming(m) == PsbLoop(m, m.state)

\* decode_psbplus: the state is built from ExecutionState::new()
decode_psbplus(m) == PsbLoop(m, ExecutionState_new)

(***************************************************************************)
(* The inputs of the model                                                 *)
(***************************************************************************)
\* the packets of a trace after its first PSB+, and the calls of coverage()
MaxPackets == 2
MaxCalls == 2
\* the length of the caller's map
MapLen == 5

\* 0x1000: nop; 0x1001: jne 0x1005; 0x1003: nop; 0x1004: ret;
\* 0x1005: jmp 0x1009; 0x1007: jmp rax; 0x1009: nop; 0x100a: int3;
\* 0x100b: mov cr3, rax; 0x100e: nop; nop
\* 0x2000: jne 0x2000; ret
\* 0x1010: ret, an image that begins where the first one ends
\* 0x10000: jne 0x10004; ret; nop; ret, whose branch target takes more than
\* sixteen bits
Images ==
    <<PtImage(U64(4096),
              <<144, 117, 2, 144, 195, 235, 2, 255, 224, 144, 204, 15, 34, 216, 144, 144>>),
      PtImage(U64(8192), <<117, 254, 195>>),
      PtImage(U64(4112), <<195>>),
      PtImage(U64(65536), <<117, 2, 195, 144, 195>>)>>

\* the encodings of the packets the traces are made of: TipPge to 0x1000,
\* Tip to 0x1007, Fup at 0x1001, TipPgd without an IP, TNT with one bit
EncPsb == PsbPattern
EncPsbEnd == <<2, 35>>
EncTipPge == <<49, 0, 16>>
EncTip == <<45, 7, 16>>
EncTipPgd == <<1>>
EncFup == <<61, 1, 16>>
EncTntT == <<6>>
EncTntNT == <<4>>
EncPipNonRoot == <<2, 67, 1, 0, 0, 0, 0, 0>>
EncPipRoot == <<2, 67, 0, 0, 0, 0, 0, 0>>
EncModeExec == <<153, 1>>
EncModeTsx == <<153, 34>>
EncOvf == <<2, 243>>
EncTraceStop == <<2, 131>>
EncBad == <<5>>
EncPadCbr == <<0, 2, 3, 0, 0>>

Chunks ==
    {EncPsb, EncPsbEnd, EncTipPge, EncTip, EncTipPgd, EncFup, EncTntT, EncTntNT,
     EncPipRoot, EncModeExec, EncModeTsx, EncOvf, EncTraceStop, EncBad}

RECURSIVE Bodies(_)
Bodies(n) ==
    IF n = 0 THEN {<<>>}
    ELSE {b \o c : b \in Bodies(n - 1), c \in Chunks \cup {<<>>}}

\* what follows the first Psb: nothing, or a PSB+ up to its PsbEnd
PsbPluses ==
    {<<>>, EncPsbEnd, EncFup \o EncPsbEnd, EncPipRoot \o EncFup \o EncPsbEnd,
     EncPipNonRoot \o EncFup \o EncPsbEnd, EncPadCbr \o EncModeExec \o EncFup \o EncPsbEnd}

\* traces with a Psb, after nothing or after a TNT byte, and traces without
\* a Fup at the ret of 0x1004 and a Tip to 0x1000, whose next decision point is
\* the jne of 0x1001
EncFupRet == <<61, 4, 16>>
EncTipLow == <<45, 0, 16>>

\* a Fup at the jne of 0x2000 and one at the mov cr3 of 0x100b, a TNT with the
\* bits taken, not taken, and a Tip without an IP
EncFupLoop == <<61, 0, 32>>
EncFupCr3 == <<61, 11, 16>>
EncTntTN == <<12>>
EncTipNoIp == <<13>>

\* traces that start on the ret: a Tip for the ret and one for the jmp rax it
\* leads to, a Tip that leads to the jne followed by another Tip, the same walk
\* on both sides of a second PSB+, two identical PSB+ back-to-back, and a Tip
\* without an IP; and a Tip that meets the mov cr3
IndirectTraces ==
    {EncPsb \o EncFupRet \o EncPsbEnd \o b :
        b \in {EncTip \o EncTip,
               EncTipLow \o EncTip,
               EncTip \o EncPsb \o EncFupRet \o EncPsbEnd \o EncTip,
               EncPsb \o EncFupRet \o EncPsbEnd,
               EncTipNoIp}}
        \cup {EncPsb \o EncFupCr3 \o EncPsbEnd \o EncTip}

\* a Fup at 0x1010, where the first image ends and the third begins, and one
\* at 0x2003, where the second image ends
EncFupEnd == <<61, 16, 16>>
EncFupPast == <<61, 3, 32>>

\* a Tip to 0x100e, the last two nops of the first image
EncTipTail == <<45, 14, 16>>

\* traces whose first walk starts at the end address of an image, and one
\* whose second walk comes to the end of the first image
BoundaryTraces ==
    {EncPsb \o f \o EncPsbEnd \o EncTip : f \in {EncFupEnd, EncFupPast}}
        \cup {EncPsb \o EncFupRet \o EncPsbEnd \o EncTipTail \o EncTip}

\* traces with a TNT: two bits for the jne that jumps to itself, a bit that
\* meets the mov cr3, and a bit whose walk meets the ret first, followed by a
\* Tip, by a Tip without an IP and by a packet that is no Tip
TntTraces ==
    {EncPsb \o EncFupLoop \o EncPsbEnd \o EncTntTN,
     EncPsb \o EncFupCr3 \o EncPsbEnd \o EncTntT}
        \cup {EncPsb \o EncFupRet \o EncPsbEnd \o EncTntT \o d :
                 d \in {EncTipLow, EncTipNoIp, EncTntT}}

\* a TipPge without an IP
EncTipPgeNoIp == <<17>>

\* traces with a TipPge without an IP, with tracing disabled and enabled
PgeTraces == {EncPsb \o plus \o EncTipPgeNoIp : plus \in {EncPsbEnd, EncFup \o EncPsbEnd}}

\* a TipPgd to 0x1001 and one to 0x1007
EncTipPgdJne == <<33, 1, 16>>
EncTipPgdIp == <<33, 7, 16>>

\* traces with a TipPgd: one whose address the walk reaches, and TipPgd with
\* and without an IP that meet the jne, the ret and the mov cr3
PgdTraces ==
    {EncPsb \o EncPsbEnd \o EncTipPge \o EncTipPgdJne}
        \cup {EncPsb \o f \o EncPsbEnd \o d :
                 f \in {EncFup, EncFupRet, EncFupCr3}, d \in {EncTipPgdIp, EncTipPgd}}

\* a Fup at the jmp of 0x1005, one at the nop of 0x1009 it jumps to, one at
\* the nop of 0x1003 it jumps over, and a Fup without an IP
EncFupJmp == <<61, 5, 16>>
EncFupTarget == <<61, 9, 16>>
EncFupSkipped == <<61, 3, 16>>
EncFupNoIp == <<29>>

\* traces with a standalone Fup: past the jne, across the direct jump, at an
\* address the direct jump skips, and without an IP
FupTraces ==
    {EncPsb \o EncFup \o EncPsbEnd \o f : f \in {EncFupRet, EncFupNoIp}}
        \cup {EncPsb \o EncFupJmp \o EncPsbEnd \o f : f \in {EncFupTarget, EncFupSkipped}}

EncVmcs == <<2, 200, 0, 0, 0, 0, 0>>

\* traces whose Fup at 0x1001 is reached at once and is followed by Pip
\* packets and a Tip or a TipPgd, or by a packet of another kind
CompoundTraces ==
    {EncPsb \o EncFup \o EncPsbEnd \o EncFup \o tail :
        tail \in {EncPipNonRoot \o EncTip, EncPipRoot \o EncPipNonRoot \o EncTipPgdIp,
                  EncPipNonRoot \o EncTipPgd, EncVmcs, EncTntT, EncPadCbr, EncTipNoIp,
                  EncTipPge, EncPipNonRoot \o EncModeExec}}

\* a Fup at the jmp rax of 0x1007
EncFupInd == <<61, 7, 16>>

\* traces whose Pip meets tracing enabled at the jne, the ret, the jmp rax,
\* the int3 and the mov cr3
PipTraces ==
    {EncPsb \o f \o EncPsbEnd \o pip :
        f \in {EncFup, EncFupRet, EncFupInd, EncFupTarget, EncFupCr3},
        pip \in {EncPipNonRoot, EncPipRoot}}

\* traces whose ModeExec meets tracing enabled at the jne or at the ret and is
\* followed by a Tip, a TipPge, a Fup or a TNT
ModeExecTraces ==
    {EncPsb \o f \o EncPsbEnd \o EncModeExec \o x :
        f \in {EncFup, EncFupRet},
        x \in {EncTip, EncTipNoIp, EncTipPge, EncFup, EncFupRet, EncTntT}}

\* a ModeTsx whose transaction state is Begin
EncModeTsxBegin == <<153, 33>>

\* traces whose ModeTsx, an abort or a begin, meets tracing enabled at the ret
\* and is followed by a Fup and a closing packet, by a Fup that is not
\* reached or has no IP, or by a Tip; and a begin met with tracing disabled
ModeTsxTraces ==
    {EncPsb \o EncFupRet \o EncPsbEnd \o tsx \o tail :
        tsx \in {EncModeTsx, EncModeTsxBegin},
        tail \in {EncFupRet \o EncTip, EncFupRet \o EncTipPge, EncFupRet \o EncTipPgd,
                  EncFupRet \o EncTntT, EncTip, EncFup, EncFupNoIp}}
        \cup {EncPsb \o EncPsbEnd \o EncModeTsxBegin \o EncFup}

\* traces whose PSB+ holds a Vmcs, a Fup without an IP, alone and after a Fup
\* with one, and a Pip with both mode packets
PsbPlusTraces ==
    {EncPsb \o plus \o EncPsbEnd :
        plus \in {EncVmcs, EncFupNoIp, EncFup \o EncFupNoIp, EncFupNoIp \o EncFupRet,
                  EncPipNonRoot \o EncModeExec \o EncModeTsx \o EncPipRoot}}

\* a TipPge to 0x10000
EncTipPgeHigh == <<81, 0, 0, 1, 0>>

\* traces that walk twice from one address: from the jne of 0x10000 in the
\* 16-bit mode and, after a ModeExec, in the 64-bit mode; and from the jne of
\* 0x1001 after a walk with an until address has stopped there
CacheTraces ==
    {EncPsb \o EncPsbEnd \o EncTipPgeHigh \o EncTntT \o EncModeExec \o EncTipPgeHigh
        \o EncTntT,
     EncPsb \o EncFup \o EncPsbEnd \o EncTntNT \o EncPsb \o EncFup \o EncPsbEnd
        \o EncTipPgdIp \o EncPsb \o EncFup \o EncPsbEnd \o EncTntT}

Traces ==
    {pre \o EncPsb \o plus \o b :
        pre \in {<<>>, EncTntT}, plus \in PsbPluses, b \in Bodies(MaxPackets)}
        \cup {<<>>, EncTipPge \o EncTntT} \cup IndirectTraces \cup BoundaryTraces
        \cup TntTraces \cup PgeTraces \cup PgdTraces \cup FupTraces
        \cup CompoundTraces \cup PipTraces \cup ModeExecTraces \cup ModeTsxTraces
        \cup PsbPlusTraces \cup CacheTraces

ZeroMap(n) == [i \in 1..n |-> 0]

\* a map whose buckets all hold the greatest value
FullMap(n) == [i \in 1..n |-> BucketMax]

NoCall == [start |-> <<>>, result |-> Ok, coverage |-> <<>>, fresh |-> FALSE, zero |-> FALSE]

\* the state after PtCoverageDecoderBuilder::build, with the caller's trace and
\* map, the map being one of `maps` and the build profile one of `profiles`
Start(maps, profiles) ==
    /\ builder \in [cpu : {"None"}, images : {Images}, filter_vmx_non_root : BOOLEAN]
    /\ pt_trace \in Traces
    /\ coverage \in maps
    /\ overflow_checks \in profiles
    /\ pos = 0
    /\ last_psb = 0
    /\ is_syncd = FALSE
    /\ state = ExecutionState_new
    /\ proceed_inst_cache = <<>>
    /\ pc = "idle"
    /\ result = Ok
    /\ calls = 0
    /\ first = NoCall
    /\ pge_open = FALSE
    /\ seen_pip = "none"
    /\ last = [res |-> Ok, events |-> NoEvents]
    /\ packet = NoPacket
    /\ iterator = NoIter
    /\ inst = NoInst

\* zero-initialised maps: no bucket can overflow, whatever the build profile
Init == Start({ZeroMap(MapLen)}, {FALSE})

\* maps whose buckets are full, under both build profiles
InitOverflow == Start({FullMap(MapLen)}, BOOLEAN)

(***************************************************************************)
(* The actions                                                             *)
(***************************************************************************)
\* an iteration state that keeps the cursor of the call before
CovDecIterationState_resumed ==
    IF Len(coverage) = 0
    THEN [res |-> Err("InvalidArgument"), is_syncd |-> is_syncd, pos |-> pos,
          last_psb |-> last_psb]
    ELSE IF calls = 0 /\ ~PtPacketDecoder_new(pt_trace).ok
    THEN [res |-> Err("SyncFailed"), is_syncd |-> is_syncd, pos |-> pos,
          last_psb |-> last_psb]
    ELSE IF calls = 0
    THEN [res |-> Ok, is_syncd |-> TRUE, pos |-> PtPacketDecoder_new(pt_trace).pos,
          last_psb |-> PtPacketDecoder_new(pt_trace).last_psb]
    ELSE [res |-> Ok, is_syncd |-> TRUE, pos |-> pos, last_psb |-> last_psb]

\* CovDecIterationState::new at the start of coverage(): [res, is_syncd, pos, last_psb]
CovDecIterationState_new ==
    LET pd == IF is_syncd THEN new_not_syncd(pt_trace) ELSE PtPacketDecoder_new(pt_trace)
    IN  IF Len(coverage) = 0
        THEN [res |-> Err("InvalidArgument"), is_syncd |-> is_syncd, pos |-> pos,
              last_psb |-> last_psb]
        ELSE IF ~pd.ok
        THEN [res |-> Err("SyncFailed"), is_syncd |-> is_syncd, pos |-> pos,
              last_psb |-> last_psb]
        ELSE [res |-> Ok, is_syncd |-> TRUE, pos |-> pd.pos, last_psb |-> pd.last_psb]

\* a loop that also ends quietly on a malformed packet
LoopResultLenient(res) == IF res.tag \in {"Eof", "MalformedPacket"} THEN Ok ELSE res

\* the match of the loop of coverage() on what proceed_with_trace returned
LoopResult(res) == IF res.tag = "Eof" THEN Ok ELSE res

\* the caller calls coverage(pt_trace, coverage)
Coverage ==
    /\ pc = "idle"
    /\ LET n == CovDecIterationState_new
       IN  /\ is_syncd' = n.is_syncd
           /\ pos' = n.pos
           /\ last_psb' = n.last_psb
           /\ pc' = IF n.res.tag = "Ok" THEN "running" ELSE "done"
           /\ result' = n.res
           /\ last' = [res |-> n.res, events |-> NoEvents]
    /\ calls' = calls + 1
    /\ first' = IF calls = 0 THEN [first EXCEPT !.start = coverage] ELSE first
    /\ UNCHANGED <<builder, pt_trace, coverage, state, proceed_inst_cache,
                   overflow_checks, pge_open, seen_pip, packet, iterator, inst>>

\* one turn of the loop of coverage() has run proceed_with_trace up to m
Commit(m) ==
    /\ state' = m.state
    /\ proceed_inst_cache' = m.cache
    /\ pos' = m.pos
    /\ last_psb' = m.last_psb
    /\ coverage' = m.coverage
    /\ pge_open' = m.pge_open
    /\ seen_pip' = m.seen_pip
    /\ last' = [res |-> m.res, events |-> m.events]
    /\ pc' = IF Failed(m) THEN "done" ELSE "running"
    /\ result' = LoopResult(m.res)
    /\ UNCHANGED <<builder, pt_trace, is_syncd, overflow_checks, calls, first, packet,
                   iterator, inst>>

\* the packet proceed_with_trace reads first
Fetched == next_packet(Machine)

Dispatch(kinds) == pc = "running" /\ ~Failed(Fetched) /\ Fetched.ret.kind \in kinds

NextPacketFails == pc = "running" /\ Failed(Fetched) /\ Commit(Fetched)

ProceedInstTnt ==
    Dispatch({"TntShort", "TntLong"}) /\ Commit(proceed_inst_tnt(Fetched, TntIter(Fetched.ret)))

ProceedInstTip == Dispatch({"Tip"}) /\ Commit(proceed_inst_tip(Fetched, Fetched.ret))

HandleTipPge == Dispatch({"TipPge"}) /\ Commit(handle_tip_pge(Fetched, Fetched.ret))

HandleTipPgd == Dispatch({"TipPgd"}) /\ Commit(handle_tip_pgd(Fetched, Fetched.ret))

HandleFup == Dispatch({"Fup"}) /\ Commit(handle_fup(Fetched, Fetched.ret))

HandlePip == Dispatch({"Pip"}) /\ Commit(handle_pip(Fetched, Fetched.ret))

HandleModeExec == Dispatch({"ModeExec"}) /\ Commit(handle_mode_exec(Fetched, Fetched.ret))

HandleModeTsx == Dispatch({"ModeTsx"}) /\ Commit(handle_mode_tsx(Fetched, Fetched.ret))

HandleOvf == Dispatch({"Ovf"}) /\ Commit(handle_ovf(Fetched))

DecodePsbplus == Dispatch({"Psb"}) /\ Commit(decode_psbplus(Fetched))

PsbEndOutside ==
    Dispatch({"PsbEnd"}) /\ Commit(Fail(Fetched, InvalidPacketSequence(<<Fetched.ret>>)))

Ignored == Dispatch({"TraceStop", "Vmcs", "Mnt", "Trig"}) /\ Commit(Fetched)

\* coverage() has returned and the caller calls it again on the same trace:
\* with the same decoder or a newly built one, and with the same map or
\* another, zero-initialised one
CallAgain ==
    /\ pc = "done"
    /\ calls < MaxCalls
    /\ result.tag \notin {"Panic", "Hang"}
    /\ pc' = "idle"
    /\ \E fresh, zero \in BOOLEAN :
         /\ is_syncd' = IF fresh THEN FALSE ELSE is_syncd
         /\ state' = IF fresh THEN ExecutionState_new ELSE state
         /\ proceed_inst_cache' = IF fresh THEN <<>> ELSE proceed_inst_cache
         /\ coverage' = IF zero THEN ZeroMap(Len(coverage)) ELSE coverage
         /\ first' = IF calls = 1
                     THEN [first EXCEPT !.result = result, !.coverage = coverage,
                                        !.fresh = fresh, !.zero = zero]
                     ELSE first
    /\ pge_open' = FALSE
    /\ seen_pip' = "none"
    /\ UNCHANGED <<builder, pt_trace, pos, last_psb, result, overflow_checks, calls, last,
                   packet, iterator, inst>>

Next ==
    \/ Coverage
    \/ NextPacketFails
    \/ ProceedInstTnt
    \/ ProceedInstTip
    \/ HandleTipPge
    \/ HandleTipPgd
    \/ HandleFup
    \/ HandlePip
    \/ HandleModeExec
    \/ HandleModeTsx
    \/ HandleOvf
    \/ DecodePsbplus
    \/ PsbEndOutside
    \/ Ignored
    \/ CallAgain

Spec == Init /\ [][Next]_vars

SpecOverflow == InitOverflow /\ [][Next]_vars

(***************************************************************************)
(* The packet layer on its own: a caller builds a PtPacketDecoder on a     *)
(* buffer and calls next(), applies Tip::ip of a TIP-family packet to a    *)
(* running last IP, and iterates the bits of a TNT packet.                 *)
(***************************************************************************)
\* the calls of next() on one buffer
MaxNexts == 4

\* payloads of n bytes: 11 22 33 .., or n times the same byte, or 00 80 00 80 ..
Payload(n, fill) ==
    [i \in 1..n |->
        CASE fill = "count" -> 17 * i
          [] fill = "high" -> IF i % 2 = 0 THEN 128 ELSE 0
          [] fill = "ones" -> 255
          [] OTHER -> 0]

\* the payload bytes that follow a TIP-family header with IPBytes tag t
TagPayloadLen(t) ==
    CASE t = 1 -> 2
      [] t = 2 -> 4
      [] t \in {3, 4} -> 6
      [] t = 6 -> 8
      [] OTHER -> 0

\* Tip packets with every tag (the reserved 5 and 7 included) and every
\* payload, TipPgd, TipPge and Fup packets with every tag
TipEncodings ==
    {<<32 * t + 13>> \o Payload(TagPayloadLen(t), f) :
        t \in 0..7, f \in {"count", "high", "ones", "zero"}}
    \cup {<<32 * t + low>> \o Payload(TagPayloadLen(t), "count") :
            t \in 0..7, low \in {1, 17, 29}}

\* every TNT-short byte: even and at least 4
TntShortEncodings == {<<b>> : b \in {x \in 4..255 : x % 2 = 0}}

EncTntLong == <<2, 163, 170, 170, 170, 170, 0, 0>>

TntLongEncodings ==
    {EncTntLong, <<2, 163, 1, 0, 0, 0, 0, 0>>, <<2, 163, 0, 0, 0, 0, 0, 128>>,
     <<2, 163, 0, 0, 0, 0, 0, 0>>}

ModeEncodings == {<<153, b1>> : b1 \in {0, 1, 2, 3, 32, 33, 34, 35, 64}}

OtherEncodings ==
    {EncPsb, <<2, 130>>, EncPsbEnd, EncOvf, EncTraceStop, EncPipNonRoot,
     <<2, 200, 1, 2, 3, 4, 5>>, <<2, 195, 136, 1, 2, 3, 4, 5, 6, 7, 8>>, <<217, 1, 2>>,
     <<2, 99>>, EncBad}

\* the beginning of a packet of several bytes
Truncated ==
    {<<2>>, <<153>>, <<45>>, <<77, 1>>, <<205, 1, 2, 3, 4, 5, 6, 7>>, <<2, 67, 1, 0>>,
     <<2, 163, 1>>, <<2, 3, 0>>, <<217, 1>>, <<2, 200, 1>>, <<2, 195, 136, 1>>}

\* runs of padding bytes and CBR packets
Skips == {<<>>, <<0>>, <<2, 3, 0, 0>>, <<0, 2, 3, 9, 9, 0>>}

Tails == {<<>>, <<0>>, EncPsbEnd, EncBad, EncTntT}

\* the buffers: a Psb, then a packet after a run of skipped bytes and before a
\* tail, or the beginning of a packet, or a TNT-short byte
Buffers ==
    {EncPsb \o skip \o body \o tail :
        skip \in Skips,
        body \in TipEncodings \cup TntLongEncodings \cup ModeEncodings \cup OtherEncodings,
        tail \in Tails}
    \cup {EncPsb \o skip \o cut : skip \in Skips \cup {EncTntNT}, cut \in Truncated}
    \cup {EncPsb \o body : body \in TntShortEncodings}

\* the values of the running last IP
LastIps == {Zero64, <<65535, 65535, 65535, 65535>>, <<57072, 39612, 22136, 4660>>}

\* what a call of the packet layer returned: a bool
Returned(b) == Err(IF b THEN "true" ELSE "false")

\* PtPacketDecoder::new on one of the buffers
InitPackets ==
    /\ builder = [cpu |-> "None", images |-> Images, filter_vmx_non_root |-> FALSE]
    /\ pt_trace \in Buffers
    /\ coverage = ZeroMap(MapLen)
    /\ overflow_checks = FALSE
    /\ pos = PtPacketDecoder_new(pt_trace).pos
    /\ last_psb = PtPacketDecoder_new(pt_trace).last_psb
    /\ is_syncd = FALSE
    /\ state \in {[ExecutionState_new EXCEPT !.tip_last_ip = l] : l \in LastIps}
    /\ proceed_inst_cache = <<>>
    /\ pc = "decoder"
    /\ result = Ok
    /\ calls = 0
    /\ first = NoCall
    /\ pge_open = FALSE
    /\ seen_pip = "none"
    /\ last = [res |-> Ok, events |-> NoEvents]
    /\ packet = NoPacket
    /\ iterator = NoIter
    /\ inst = NoInst

\* PtPacketDecoder::next_packet, also after it has failed
PacketDecoderNext ==
    /\ pc \in {"decoder", "ip", "ip_again"}
    /\ calls < MaxNexts
    /\ LET m == next_packet(Machine)
       IN  /\ pos' = m.pos
           /\ last_psb' = m.last_psb
           /\ packet' = IF Failed(m) THEN NoPacket ELSE m.ret
           /\ result' = m.res
           /\ last' = [res |-> m.res, events |-> m.events]
    /\ calls' = calls + 1
    /\ pc' = "decoder"
    /\ iterator' = NoIter
    /\ UNCHANGED <<builder, pt_trace, coverage, is_syncd, state, proceed_inst_cache,
                   overflow_checks, first, pge_open, seen_pip, inst>>

\* Tip::ip of the packet on the running last IP, a first and a second time
TipIpCall ==
    /\ pc \in {"decoder", "ip"}
    /\ packet.kind \in {"Tip", "TipPge", "TipPgd", "Fup"}
    /\ LET t == TipIp(packet, state.tip_last_ip)
       IN  /\ state' = [state EXCEPT !.tip_last_ip = t.last_ip]
           /\ result' = Returned(t.ok)
    /\ pc' = IF pc = "decoder" THEN "ip" ELSE "ip_again"
    /\ UNCHANGED <<builder, pt_trace, pos, last_psb, coverage, is_syncd,
                   proceed_inst_cache, overflow_checks, calls, first, pge_open, seen_pip,
                   last, packet, iterator, inst>>

\* into_iter() of the TNT packet
TntIntoIter ==
    /\ pc = "decoder"
    /\ packet.kind \in {"TntShort", "TntLong"}
    /\ iterator = NoIter
    /\ iterator' = into_iter(packet)
    /\ UNCHANGED <<builder, pt_trace, pos, last_psb, coverage, is_syncd, state,
                   proceed_inst_cache, pc, result, overflow_checks, calls, first,
                   pge_open, seen_pip, last, packet, inst>>

\* next() of the iterator, up to its first None
TntIterNext ==
    /\ pc = "decoder"
    /\ iterator # NoIter
    /\ ~iterator.done
    /\ iterator' = TntIter_next(iterator)
    /\ UNCHANGED <<builder, pt_trace, pos, last_psb, coverage, is_syncd, state,
                   proceed_inst_cache, pc, result, overflow_checks, calls, first,
                   pge_open, seen_pip, last, packet, inst>>

NextPackets ==
    \/ PacketDecoderNext
    \/ TipIpCall
    \/ TntIntoIter
    \/ TntIterNext

SpecPackets == InitPackets /\ [][NextPackets]_vars

(***************************************************************************)
(* The classification of instructions: test::from_works on the opcodes of  *)
(* the model, one instruction at a time.                                   *)
(***************************************************************************)
Codes ==
    JccCodes \cup LoopCodes \cup JrcxzCodes \cup KncCodes \cup JmpRelCodes \cup UdCodes
        \cup RetnCodes \cup RetfCodes \cup VmrunCodes \cup NextCodes
        \cup {"Jmp_ptr1616", "Jmp_ptr1632", "Jmpe_disp16", "Jmpe_disp32", "Jmp_rm16",
              "Jmp_rm32", "Jmp_rm64", "Jmp_m1616", "Jmp_m1632", "Jmp_m1664", "Jmpe_rm16",
              "Jmpe_rm32", "Call_rel16", "Call_rel32_32", "Call_rel32_64", "Call_ptr1616",
              "Call_ptr1632", "Syscall", "Sysenter", "Vmlaunch", "Vmresume", "Vmcall",
              "Vmmcall", "Vmgexit", "Vmgexit_F2", "Tdcall", "Seamcall", "Seamret",
              "Call_rm16", "Call_rm32", "Call_rm64", "Call_m1616", "Call_m1632",
              "Call_m1664", "Iretw", "Iretd", "Iretq", "Sysretd", "Sysretq", "Sysexitd",
              "Sysexitq", "Uiret", "Erets", "Eretu", "Rsm", "Skinit", "Rdm", "Int_imm8",
              "Int3", "Int1", "Into", "Smint", "Smint_0F7E", "Dmint", "Xbegin_rel16",
              "Xbegin_rel32", "Xabort_imm8", "Xend"}

\* the instructions: an opcode, and for a move to a control register the register
Instructions ==
    {WithCode(code, "None") : code \in Codes}
        \cup {WithCode(code, r) : code \in {"Mov_cr_r32", "Mov_cr_r64"}, r \in {"CR0", "CR3"}}

InitClass ==
    /\ Start({ZeroMap(MapLen)}, {FALSE})
    /\ pt_trace = <<>>
    /\ ~builder.filter_vmx_non_root

\* the loop of test::from_works takes an opcode
SetCode ==
    /\ pc = "idle"
    /\ inst = NoInst
    /\ \E i \in Instructions : inst' = [NoInst EXCEPT !.instruction = i]
    /\ UNCHANGED <<builder, pt_trace, pos, last_psb, coverage, is_syncd, state,
                   proceed_inst_cache, pc, result, overflow_checks, calls, first,
                   pge_open, seen_pip, last, packet, iterator>>

\* InstructionClass::from(&instruction), for an opcode the test does not step over
ClassFrom ==
    /\ inst.instruction.code \notin Unsupported \cup {"INVALID"}
    /\ inst.class = "none"
    /\ inst' = [inst EXCEPT !.class = InstructionClass(inst.instruction)]
    /\ UNCHANGED <<builder, pt_trace, pos, last_psb, coverage, is_syncd, state,
                   proceed_inst_cache, pc, result, overflow_checks, calls, first,
                   pge_open, seen_pip, last, packet, iterator>>

\* class_from_instruction_raw(&instruction)
ClassFromRaw ==
    /\ inst.instruction.code \notin Unsupported \cup {"INVALID"}
    /\ inst.raw = "none"
    /\ inst' = [inst EXCEPT !.raw = class_from_instruction_raw(inst.instruction)]
    /\ UNCHANGED <<builder, pt_trace, pos, last_psb, coverage, is_syncd, state,
                   proceed_inst_cache, pc, result, overflow_checks, calls, first,
                   pge_open, seen_pip, last, packet, iterator>>

NextClass ==
    \/ SetCode
    \/ ClassFrom
    \/ ClassFromRaw

SpecClass == InitClass /\ [][NextClass]_vars

(***************************************************************************)
(* The properties                                                          *)
(***************************************************************************)
\* the events of the step that led to the state, while a call is under way or
\* has just returned
Packets == last.events.packets
Walks == last.events.walks
Edges == last.events.edges
Recorded == {i \in DOMAIN Edges : Edges[i].recorded}

\* C1: coverage() returns Ok exactly when the packet decoder reports Eof,
\* wherever the Eof is met; a failing read ends the step it occurs in; any
\* other error ends the loop at once and is returned unchanged.
C1_OkExactlyOnEof ==
    /\ pc = "done" =>
         /\ result.tag = "Ok" <=> (Packets # <<>> /\ Packets[Len(Packets)].kind = "Eof")
         /\ last.res.tag # "Eof" => result = last.res
    /\ pc = "running" => last.res.tag = "Ok"
    /\ pc # "idle" =>
         \A i \in DOMAIN Packets :
            Packets[i].kind \in {"Eof", "MalformedPacket"} =>
                i = Len(Packets) /\ last.res.tag = Packets[i].kind

\* the Eof is met by a handler that waits for a follow-up packet
C1_Witness ==
    /\ pc = "done"
    /\ result.tag = "Ok"
    /\ Len(Packets) >= 2
    /\ Packets[Len(Packets)].kind = "Eof"

\* C2: on a decoder that has not synchronised, coverage() with a non-empty
\* map returns SyncFailed on a trace without a Psb pattern, dispatching no
\* packet and changing neither the map nor the execution state; with the
\* pattern present the cursor starts at its first occurrence, and no packet
\* that starts before it is dispatched.
C2_SyncFailedOrAtFirstPsb ==
    /\ [][(pc = "idle" /\ ~is_syncd /\ Len(coverage) > 0) =>
            IF first_psb_position(pt_trace) < 0
            THEN /\ pc' = "done"
                 /\ result' = Err("SyncFailed")
                 /\ last'.events = NoEvents
                 /\ coverage' = coverage
                 /\ state' = state
            ELSE /\ pc' = "running"
                 /\ pos' = first_psb_position(pt_trace)]_vars
    /\ [](calls = 1 =>
            \A i \in DOMAIN Packets : Packets[i].start >= first_psb_position(pt_trace))

\* a first call has dispatched the Psb of a trace that starts with another byte
C2_Witness ==
    /\ calls = 1
    /\ pc = "running"
    /\ first_psb_position(pt_trace) > 0
    /\ Packets # <<>>
    /\ Packets[1].kind = "Psb"

\* C3: a handler that reaches a walk with packet_en = false decodes no
\* instruction: the walk and the call fail with IncoherentState, and ip and
\* the coverage map are as they were before the packet.
C3_NoWalkWhenDisabled ==
    [][(pc = "running" /\ \E i \in DOMAIN Walks' : ~Walks'[i].packet_en) =>
         /\ \A i \in DOMAIN Walks' :
               ~Walks'[i].packet_en =>
                   /\ Walks'[i].res = "IncoherentState"
                   /\ Walks'[i].ip = Walks'[i].from
                   /\ ~Walks'[i].cached
         /\ pc' = "done"
         /\ result' = Err("IncoherentState")
         /\ state'.ip = state.ip
         /\ coverage' = coverage]_vars

\* a TNT packet has come with packet_en = false
C3_Witness ==
    /\ pc = "done"
    /\ result.tag = "IncoherentState"
    /\ ~state.packet_en
    /\ Walks # <<>>
    /\ Packets # <<>>
    /\ Packets[1].kind = "TntShort"

\* C4 as the spec has it: a bucket is incremented only with a TipPge since
\* the start of the trace or since the last TipPgd.
C4_OnlyInsidePgePgd == pc # "idle" => \A i \in Recorded : Edges[i].pge_open

\* C4: a bucket is incremented only in a state where packet_en holds; packet_en
\* is also set by a Fup with an IP inside PSB+ and by a Fup after an Ovf, so
\* that edges are recorded without any TipPge.
C4_OnlyWhileEnabled == pc # "idle" => \A i \in Recorded : Edges[i].packet_en

\* an edge is recorded with packet_en set and no TipPge before it
C4_Witness ==
    /\ pc # "idle"
    /\ \E i \in Recorded : Edges[i].packet_en /\ ~Edges[i].pge_open

\* the map after the edge i of the step has been handled
MapAfter(i) == IF i < Len(Edges) THEN Edges[i + 1].before ELSE coverage

\* C5: recording an edge (from, to) into a map of length n > 0 increments the
\* bucket (fmix64(from) XOR fmix64(to)) mod n by one and leaves the other
\* buckets unchanged; the index is within 0..n-1.  fmix64 is the finalizer of
\* MurmurHash3: fmix64(0x1000) = 0xc9809a5b89619d73.
C5_OneBucketByHash ==
    /\ fmix64(U64(4096)) = <<40307, 35169, 37979, 51584>>
    /\ pc # "idle" =>
         \A i \in Recorded :
            LET e == Edges[i]
                n == Len(e.before)
                k == Mod64(Xor64(fmix64(e.from), fmix64(e.to)), n)
            IN  /\ n > 0
                /\ k \in 0..(n - 1)
                /\ e.index = k
                /\ MapAfter(i) = [e.before EXCEPT ![k + 1] = @ + 1]

\* an edge has been recorded into a bucket other than the first
C5_Witness ==
    /\ pc # "idle"
    /\ \E i \in Recorded : Edges[i].index > 0 /\ coverage[Edges[i].index + 1] = 1

\* the instruction at the address `at` of the images
InstructionAt(at, mode_exec) ==
    LET d == new_inst_decoder(at, mode_exec).dec
    IN  Decode(d.bitness, builder.images[d.image].data, d.position, d.ip)

AddressingModes == {0, 1, 2}

C7_NonDecreasing ==
    [][pc = "running" => \A b \in DOMAIN coverage : coverage'[b] >= coverage[b]]_vars

\* C7: an increment adds one modulo 2^8 in a build without overflow checks, so
\* that a full bucket wraps to 0, and panics in a build with them, leaving the
\* bucket full; a bucket decreases in no other case.
C7_NonDecreasingUnlessFull ==
    [][pc = "running" =>
         \A b \in DOMAIN coverage :
            LET hits == Cardinality({i \in Recorded' : Edges'[i].index = b - 1})
            IN  IF overflow_checks /\ coverage[b] + hits > BucketMax
                THEN result'.tag = "Panic" /\ coverage'[b] = BucketMax
                ELSE /\ coverage'[b] = (coverage[b] + hits) % (BucketMax + 1)
                     /\ coverage'[b] < coverage[b] => coverage[b] + hits > BucketMax]_vars

\* a full bucket has been incremented and holds 0
C7_Witness ==
    /\ pc # "idle"
    /\ ~overflow_checks
    /\ \E i \in Recorded : Edges[i].before[Edges[i].index + 1] = BucketMax
                           /\ coverage[Edges[i].index + 1] = 0

\* C8: with filter_vmx_non_root a bucket is incremented only while the last
\* Pip observed has its non-root-VMX bit set, and not before a Pip has been
\* observed; without it no edge is suppressed.
C8_OnlyNonRoot ==
    pc # "idle" =>
        \A i \in DOMAIN Edges :
            IF builder.filter_vmx_non_root
            THEN Edges[i].recorded => Edges[i].seen_pip = "set"
            ELSE Edges[i].recorded

\* C9: the builder has an ignore_coverage_until offset, and no bucket is
\* incremented while the cursor is below it.
C9_IgnoreCoverageUntil ==
    /\ "ignore_coverage_until" \in DOMAIN builder
    /\ pc # "idle" => \A i \in Recorded : Edges[i].pos >= builder.ignore_coverage_until

\* the second of two runs into zero-initialised maps has returned
Replayed == pc = "done" /\ calls = 2 /\ first.zero /\ first.start = ZeroMap(Len(coverage))

C11_NeverAborts == pc = "done" => result.tag # "Panic"

\* the packet that the last call of next() yielded starts at this offset
PacketStart == Packets[Len(Packets)].start

\* the width in bytes that the IPBytes tag of a TIP-family header stands for
TagWidth(header) ==
    CASE header \div 32 = 1 -> 2
      [] header \div 32 = 2 -> 4
      [] header \div 32 \in {3, 4} -> 6
      [] header \div 32 = 6 -> 8
      [] OTHER -> 0

\* C12: Tip::ip returns false and leaves last_ip as it is for the tag None;
\* otherwise it returns true, the low bytes of last_ip are the payload bytes
\* (2, 4, 6 or 8 of them), and the bytes above are those of the old last_ip,
\* or for SignExtend48 copies of bit 47 of the payload; a second application
\* of the same packet changes nothing.
C12_TipIpDecompresses ==
    [][(pc' \in {"ip", "ip_again"} /\ pc' # pc) =>
         LET header == pt_trace[PacketStart + 1]
             w == TagWidth(header)
             old == ToBytes(state.tip_last_ip)
             new == ToBytes(state'.tip_last_ip)
             sign == IF pt_trace[PacketStart + 7] >= 128 THEN 255 ELSE 0
         IN  /\ w = 0 => result'.tag = "false" /\ new = old
             /\ w > 0 =>
                   /\ result'.tag = "true"
                   /\ \A i \in 1..8 :
                         new[i] = IF i <= w THEN pt_trace[PacketStart + 1 + i]
                                  ELSE IF header \div 32 = 3 THEN sign
                                  ELSE old[i]
             /\ pc' = "ip_again" => state' = state]_vars

\* a SignExtend48 payload with bit 47 set has been applied twice to a last IP
\* whose high bytes were 0
C12_Witness ==
    /\ pc = "ip_again"
    /\ packet.ip_bytes = "SignExtend48"
    /\ state.tip_last_ip = <<32768, 32768, 32768, 65535>>

\* the position of the highest set bit of a byte
StopBit(b) == CHOOSE h \in 0..7 : (b \div Pow2(h)) % 2 = 1 /\ b < Pow2(h + 1)

\* C13: iterating a TNT-short byte whose highest set bit is at position h,
\* 2 <= h <= 7, yields h-1 booleans, the bits at positions h-1 down to 1 in
\* that order; neither the stop bit nor bit 0 is yielded, so that between 1
\* and 6 bits come out, and 0b00110100 yields T, F, T, F.  The engine is
\* handed the same bits.
C13_TntShortBits ==
    iterator.kind = "TntShort" =>
        LET b == iterator.raw[1]
            h == StopBit(b)
            y == iterator.yielded
        IN  /\ h \in 2..7
            /\ Len(y) <= h - 1
            /\ \A i \in DOMAIN y : y[i] = ((b \div Pow2(h - i)) % 2 = 1)
            /\ iterator.done =>
                  /\ Len(y) = h - 1
                  /\ Len(y) \in 1..6
                  /\ y = TntIter(packet)
                  /\ b = 52 => y = <<TRUE, FALSE, TRUE, FALSE>>

\* the iterator of 0b00110100 has returned None after four bits
C13_Witness ==
    /\ iterator.kind = "TntShort"
    /\ iterator.done
    /\ iterator.raw = <<52>>
    /\ iterator.yielded = <<TRUE, FALSE, TRUE, FALSE>>

\* the position of the highest set bit of a payload of 6 bytes
StopBit48(raw) == CHOOSE h \in 0..47 : BitAt(raw, h) = 1 /\ \A k \in (h + 1)..47 : BitAt(raw, k) = 0

\* the iterator of the TNT-long AA AA AA AA 00 00 has returned None
Alternating == iterator.kind = "TntLong" /\ iterator.done /\ iterator.raw = Raw(EncTntLong, 0, 2, 6)

\* C14 as the spec has it: the payload AA AA AA AA 00 00 yields 30
\* alternating bits that end F, T, F.
C14_ThirtyBits ==
    Alternating =>
        /\ Len(iterator.yielded) = 30
        /\ SubSeq(iterator.yielded, 28, 30) = <<FALSE, TRUE, FALSE>>

\* C14: the stop bit of a TNT-long is the highest set bit of its payload and
\* every bit below it, bit 0 included, is yielded from the highest down; the
\* payload AA AA AA AA 00 00 has its stop bit at 31 and yields 31 alternating
\* bits, F first, that end F, T, F.
C14_ThirtyOneBits ==
    iterator.kind = "TntLong" =>
        LET h == StopBit48(iterator.raw)
            y == iterator.yielded
        IN  /\ Len(y) <= h
            /\ \A i \in DOMAIN y : y[i] = (BitAt(iterator.raw, h - i) = 1)
            /\ iterator.done => Len(y) = h /\ y = TntIter(packet)
            /\ Alternating =>
                  /\ Len(y) = 31
                  /\ \A i \in 1..31 : y[i] = (i % 2 = 0)
                  /\ SubSeq(y, 29, 31) = <<FALSE, TRUE, FALSE>>

\* all the bits of AA AA AA AA 00 00 have come out
C14_Witness == Alternating /\ Len(iterator.yielded) = 31

\* a Cbr packet starts at offset a of the buffer
CbrAt(a) == Len(pt_trace) - a >= 4 /\ pt_trace[a + 1] = 2 /\ pt_trace[a + 2] = 3

\* the bytes from offset a up to offset b are padding bytes and Cbr packets
RECURSIVE Skippable(_, _)
Skippable(a, b) ==
    \/ a = b
    \/ a < b /\ pt_trace[a + 1] = 0 /\ Skippable(a + 1, b)
    \/ a + 4 <= b /\ CbrAt(a) /\ Skippable(a + 4, b)

\* the encoded size of a packet that is not of the TIP family
EncodedSize(kind) ==
    CASE kind = "TntShort" -> 1
      [] kind \in {"ModeExec", "ModeTsx", "PsbEnd", "Ovf", "TraceStop"} -> 2
      [] kind = "Trig" -> 3
      [] kind = "Vmcs" -> 7
      [] kind \in {"TntLong", "Pip"} -> 8
      [] kind = "Mnt" -> 11
      [] kind = "Psb" -> 16

\* C15: a successful next() skips the padding bytes and Cbr packets at the
\* cursor, yields the packet that starts at the first byte after them and
\* leaves the cursor at that packet's start plus its encoded size (1, 3, 5, 7,
\* 7, 9 bytes for the TIP family), which is where the next call starts.
C15_BufferOrder ==
    [][(calls' = calls + 1 /\ result'.tag = "Ok") =>
         LET s == Packets'[1].start
             header == pt_trace[s + 1]
         IN  /\ Len(Packets') = 1
             /\ pos <= s
             /\ Skippable(pos, s)
             /\ s < Len(pt_trace)
             /\ header # 0
             /\ ~CbrAt(s)
             /\ packet'.kind \in {"Tip", "TipPge", "TipPgd", "Fup"} <=>
                   header % 32 \in {1, 13, 17, 29}
             /\ pos' = s + IF header % 32 \in {1, 13, 17, 29}
                           THEN 1 + TagWidth(header)
                           ELSE EncodedSize(packet'.kind)
             /\ Packets'[1].end = pos']_vars

\* a Tip of 9 bytes has been yielded after a padding byte, a Cbr and another
\* padding byte
C15_Witness ==
    /\ calls = 2
    /\ result.tag = "Ok"
    /\ packet.kind = "Tip"
    /\ packet.ip_bytes = "_64"
    /\ PacketStart = PSB_SIZE + 6
    /\ pos = PSB_SIZE + 15

\* the first offset at or after the cursor that is neither a padding byte nor
\* the start of a Cbr packet; the length of the buffer when there is none,
\* and the cursor when it is past the end
FirstPacketByte ==
    IF pos >= Len(pt_trace) THEN pos
    ELSE CHOOSE q \in pos..Len(pt_trace) :
            /\ Skippable(pos, q)
            /\ q < Len(pt_trace) => pt_trace[q + 1] # 0 /\ ~CbrAt(q)

\* the bytes from offset q to the end of the buffer start with these
StartsWith(q, bytes) ==
    /\ Len(pt_trace) - q >= Len(bytes)
    /\ SubSeq(pt_trace, q + 1, q + Len(bytes)) = bytes

\* the shapes that are no packet: an unknown header, a TIP-family header with
\* the tag 101 or 111, a MODE.Exec or MODE.TSX with the low bits 11, a TNT-long
\* with a payload of zeroes
Offending(q) ==
    /\ q < Len(pt_trace)
    /\ \/ StartsWith(q, EncBad)
       \/ StartsWith(q, <<2, 99>>)
       \/ pt_trace[q + 1] % 32 \in {1, 13, 17, 29} /\ pt_trace[q + 1] \div 32 \in {5, 7}
       \/ StartsWith(q, <<153, 3>>)
       \/ StartsWith(q, <<153, 35>>)
       \/ StartsWith(q, <<2, 163, 0, 0, 0, 0, 0, 0>>)

\* C16: a next() that fails with MalformedPacket leaves the cursor on the
\* first byte of the offending packet, only padding and Cbr before it having
\* been skipped, and a repeated next() fails in the same way at the same
\* position; the shapes of the claim are all refused in this way.
C16_MalformedStays ==
    [][(calls' = calls + 1) =>
         /\ result'.tag = "MalformedPacket" =>
               /\ pos' = FirstPacketByte
               /\ pos' < Len(pt_trace)
               /\ packet' = NoPacket
               /\ last_psb' = last_psb
         /\ Offending(FirstPacketByte) => result'.tag = "MalformedPacket"
         /\ (result.tag = "MalformedPacket" /\ pc = "decoder") =>
               /\ result' = result
               /\ pos' = pos]_vars

\* next() has failed twice on a TNT-long with a payload of zeroes that comes
\* after a run of padding and Cbr
C16_Witness ==
    /\ calls = 3
    /\ result.tag = "MalformedPacket"
    /\ pos = PSB_SIZE + 6
    /\ StartsWith(pos, <<2, 163, 0, 0, 0, 0, 0, 0>>)

\* C17: next() fails with Eof whenever the buffer is exhausted before a
\* complete packet has been read: with the cursor at or past the end, with
\* only padding and Cbr left, and with the beginning of a packet of several
\* bytes left.
C17_EofWhenExhausted ==
    [][(calls' = calls + 1) =>
         LET q == FirstPacketByte
         IN  (q >= Len(pt_trace) \/ SubSeq(pt_trace, q + 1, Len(pt_trace)) \in Truncated) =>
                result'.tag = "Eof"]_vars

\* the stop reasons at which a Tip is consumed
IndirectKinds == {"Indirect", "FarIndirect", "Return"}

\* the step taken is proceed_inst_tip and its walk has been made
TipStep == pc = "running" /\ Len(Packets') > 0 /\ Packets'[1].kind = "Tip" /\ Len(Walks') > 0

\* the step before was a Tip, consumed at an indirect decision point
AfterTip == Len(Packets) = 1 /\ Packets[1].kind = "Tip"

\* C18: a Tip whose walk stops at an indirect decision point is consumed there,
\* alone, and a Tip that follows a consumed Tip and whose walk finds no
\* indirect decision point makes the engine fail with InvalidPacketSequence.
C18_TipPerIndirect ==
    [][TipStep =>
         /\ Walks'[1].reason.kind \in IndirectKinds =>
              /\ Len(Packets') = 1
              /\ pc' = "running"
              /\ state'.ip = state'.tip_last_ip
         /\ (AfterTip /\ Walks'[1].reason.kind \notin IndirectKinds) =>
              result'.tag = "InvalidPacketSequence"]_vars

\* the step taken is decode_psbplus and it has reached the PsbEnd
IslandDone ==
    /\ pc = "running"
    /\ pc' = "running"
    /\ Len(Packets') > 1
    /\ Packets'[1].kind = "Psb"
    /\ Packets'[Len(Packets')].kind = "PsbEnd"

\* the bytes of the packets of the last step
StepBytes(packets) == SubSeq(pt_trace, packets[1].start + 1, packets[Len(packets)].end)

\* a packet of one of the kinds is among the packets
Has(packets, kinds) == \E i \in 1..Len(packets) : packets[i].kind \in kinds

\* C19: the state a completed PSB+ leaves depends only on its packets: every
\* field that no packet of the PSB+ sets has its initial value, whatever the
\* state before was, and a PSB+ that follows an identical PSB+ leaves the
\* state the first one left.
C19_IslandState ==
    [][IslandDone =>
         /\ ~Has(Packets', {"Fup"}) =>
              /\ ~state'.packet_en
              /\ state'.ip = Zero64
              /\ state'.tip_last_ip = Zero64
         /\ ~Has(Packets', {"Pip"}) => state'.pip = <<0, 0, 0, 0, 0, 0>>
         /\ ~Has(Packets', {"ModeExec"}) => state'.mode_exec = 0
         /\ ~Has(Packets', {"ModeTsx"}) => state'.mode_tsx = 0
         /\ ~Has(Packets', {"Vmcs"}) => state'.vmcs = <<>>
         /\ state'.save_coverage
         /\ state' = decode_psbplus([Fetched EXCEPT !.state = ExecutionState_new]).state
         /\ (Len(Packets) > 1 /\ Packets[1].kind = "Psb"
                /\ StepBytes(Packets) = StepBytes(Packets')) => state' = state]_vars

\* a PSB+ without a packet has been read by an engine that had an IP and
\* packet generation on
C19_Witness ==
    /\ pc = "running"
    /\ Len(Packets) = 2
    /\ Packets[1].kind = "Psb"
    /\ Packets[2].kind = "PsbEnd"
    /\ Packets[1].start > 0
    /\ state = ExecutionState_new
    /\ \E q \in 1..Packets[1].start : SubSeq(pt_trace, q, q + 2) = EncFup

\* two identical PSB+ with a Fup have been read one after the other
C19_WitnessTwice ==
    /\ pc = "running"
    /\ Len(Packets) = 3
    /\ Packets[1].kind = "Psb"
    /\ Packets[3].kind = "PsbEnd"
    /\ Packets[1].start = Packets[3].end - Packets[1].start
    /\ SubSeq(pt_trace, 1, Packets[1].start) = StepBytes(Packets)
    /\ state.packet_en
    /\ state.ip = U64(4100)

\* the step before was decode_psbplus and it reached the PsbEnd: what the
\* cache holds was inserted before that Psb, recovery making no walk
AfterIsland ==
    /\ pc = "running"
    /\ Len(Packets) > 1
    /\ Packets[1].kind = "Psb"
    /\ Packets[Len(Packets)].kind = "PsbEnd"

\* C20: the first walk after a completed PSB+ recovery does not return an
\* entry of the decision-point cache, every entry the cache could hold having
\* been inserted before the Psb.
C20_CacheInvalidated ==
    [][(AfterIsland /\ Len(Walks') > 0) => ~Walks'[1].cached]_vars

\* the images whose range [base_va, base_va + len) holds the address
HalfOpenImages(ip) ==
    {i \in 1..Len(builder.images) :
        /\ Le64(virtual_address_start(builder.images[i]), ip)
        /\ Lt64(ip, virtual_address_end(builder.images[i]))}

\* the walks of the step that have looked an image up
Lookups(walks) == {i \in 1..Len(walks) : walks[i].packet_en /\ ~walks[i].cached}

\* C21: a walk positions the instruction decoder in the first image whose
\* half-open range [base_va, base_va + len) holds the ip it starts at, and
\* fails with MissingImage when there is none; the address where one image
\* ends and another begins is decoded from the image that begins there.
C21_HalfOpenLookup ==
    [][\A i \in Lookups(Walks') :
         LET w == Walks'[i]
             nd == new_inst_decoder(w.from, 0)
             hits == HalfOpenImages(w.from)
         IN  /\ nd.ok <=> hits # {}
             /\ nd.ok => /\ nd.dec.image \in hits
                         /\ \A k \in hits : nd.dec.image <= k
             /\ hits = {} => w.res = "MissingImage"]_vars

\* the classes of InstructionClass
Classes ==
    {"CallDirect", "CallIndirect", "CondBranch", "FarCall", "FarJump", "FarReturn",
     "JumpDirect", "JumpIndirect", "MovCr3", "Other", "Return"}

\* C22: for every opcode the test does not step over, the class derived from
\* the flow control and the opcode is one of the classes and is the class the
\* table written by hand gives.
C22_ClassAgreesWithTable ==
    /\ inst.class # "none" => inst.class \in Classes
    /\ (inst.class # "none" /\ inst.raw # "none") => inst.class = inst.raw

\* vmlaunch, a call by its flow control, has been classified as a far return
\* by both
C22_Witness ==
    /\ inst.instruction.code = "Vmlaunch"
    /\ inst.instruction.flow_control = "Call"
    /\ inst.class = "FarReturn"
    /\ inst.raw = "FarReturn"

\* the longest static path the images of the model hold
MaxPath == 32

\* the static control flow from `a`, by addresses: the stop reason of the first
\* instruction of a decision class and the address that follows it, or the
\* error of an address no image holds or of bytes that are no instruction
RECURSIVE StaticPath(_, _, _)
StaticPath(a, bitness, fuel) ==
    LET hits == HalfOpenImages(a)
        i == CHOOSE j \in hits : \A k \in hits : j <= k
        start == virtual_address_start(builder.images[i])
        ins == Decode(bitness, builder.images[i].data, Small64(Sub64(a, start)), a)
        class == InstructionClass(ins)
    IN  IF fuel = 0 THEN [res |-> "Hang", kind |-> "none", to |-> Zero64, ip |-> a]
        ELSE IF hits = {} THEN [res |-> "MissingImage", kind |-> "none", to |-> Zero64, ip |-> a]
        ELSE IF ins.code = "INVALID"
        THEN [res |-> "MalformedInstruction", kind |-> "none", to |-> Zero64, ip |-> a]
        ELSE IF class = "Other" THEN StaticPath(Add64(a, ins.len), bitness, fuel - 1)
        ELSE IF class \in {"JumpDirect", "CallDirect"}
        THEN StaticPath(ins.near_branch, bitness, fuel - 1)
        ELSE [res |-> "Ok", kind |-> StopReasonOf(ins, a).kind,
              to |-> StopReasonOf(ins, a).to, ip |-> Add64(a, ins.len)]

\* the walks of the step made with walk_until(None) that were not answered
\* from the cache
FreeWalks(walks) == {i \in Lookups(walks) : walks[i].until = <<>>}

\* C23: walk_until(None) with packet_en = true follows the static control
\* flow from ip and stops at the first instruction of a decision class, with
\* the stop reason of that class and the branch's static target; an address
\* no image holds ends it with MissingImage and an undecodable instruction
\* with MalformedInstruction.
C23_WalkFollowsStaticFlow ==
    [][(state'.mode_exec = state.mode_exec) =>
         \A i \in FreeWalks(Walks') :
            LET w == Walks'[i]
                p == StaticPath(w.from, addressing_mode(state.mode_exec), MaxPath)
            IN  /\ w.res = p.res
                /\ w.reason.kind = p.kind
                /\ w.reason.to = p.to
                /\ p.res = "Ok" => w.ip = p.ip]_vars

\* the k-th packet the step has read, parsed from the buffer again
StepPacket(packets, k) == parse(pt_trace, packets[k].start).pkt

\* the step taken is proceed_inst_tnt with tracing enabled
TntStep ==
    /\ pc = "running"
    /\ state.packet_en
    /\ Len(Packets') > 0
    /\ Packets'[1].kind \in {"TntShort", "TntLong"}

\* the walks among the first i of the step that stopped at a conditional branch
CondWalks(walks, i) == {j \in 1..i : walks[j].reason.kind = "CondBranch"}

\* where the engine is after the i-th walk of the step has been dealt with
NextFrom(walks, i, ip) == IF i < Len(walks) THEN walks[i + 1].from ELSE ip

\* C24: the bits of a TNT packet handled with tracing enabled are consumed in
\* iteration order, one per walk that stops at a conditional branch: a taken
\* bit records one edge to the branch's target and sets ip to it, a not-taken
\* bit records nothing and leaves ip after the branch, whose length is two
\* bytes in the images; a walk that stops at MovCr3 ends the packet with
\* IncoherentImage; after the last bit no walk is made.
C24_TntBitsInOrder ==
    [][TntStep =>
         LET bits == TntIter(StepPacket(Packets', 1))
             w == Walks'
             conds == CondWalks(w, Len(w))
             taken == {j \in conds : bits[Cardinality(CondWalks(w, j))]}
         IN  /\ Cardinality(conds) <= Len(bits)
             /\ \A j \in conds :
                  /\ w[j].ip = Add64(w[j].reason.at, 2)
                  /\ NextFrom(w, j, state'.ip) = IF j \in taken THEN w[j].reason.to ELSE w[j].ip
             /\ Cardinality({e \in 1..Len(Edges') : Edges'[e].decision.kind = "CondBranch"})
                   = Cardinality(taken)
             /\ \A e \in 1..Len(Edges') :
                  Edges'[e].decision.kind = "CondBranch" =>
                     \E j \in taken : /\ Edges'[e].decision = w[j].reason
                                      /\ Edges'[e].from = w[j].ip
                                      /\ Edges'[e].to = w[j].reason.to
             /\ \A j \in 1..Len(w) :
                  w[j].reason.kind = "MovCr3" =>
                     j = Len(w) /\ result'.tag = "IncoherentImage"
             /\ pc' = "running" =>
                  /\ Cardinality(conds) = Len(bits)
                  /\ Len(w) \in conds]_vars

\* a TNT with the bits taken, not taken has been handled at the jne of 0x2000
\* that jumps to itself: two walks, one edge, ip after the branch
C24_Witness ==
    /\ pc = "running"
    /\ Len(Packets) = 1
    /\ Packets[1].kind = "TntShort"
    /\ TntIter(StepPacket(Packets, 1)) = <<TRUE, FALSE>>
    /\ Len(Walks) = 2
    /\ Len(Edges) = 1
    /\ Edges[1].to = U64(8192)
    /\ state.ip = U64(8194)

\* the walks among the first i of the step that stopped at an indirect
\* decision point
IndirectWalks(walks, i) == {j \in 1..i : walks[j].reason.kind \in IndirectKinds}

\* the edges of the step recorded for an indirect decision point
TipEdges(edges) == {e \in 1..Len(edges) : edges[e].decision.kind \in IndirectKinds}

\* C25: while a TNT packet is handled with tracing enabled, each walk that
\* stops at Indirect, FarIndirect or Return reads the next packet of the
\* buffer: a packet that is no Tip gives InvalidPacketSequence, a Tip without
\* an IP gives MalformedPacket, a Tip with an IP records one edge to its
\* decompressed address and sets ip to it, and another walk follows for the
\* bit, which is only consumed at a conditional branch.
C25_DeferredTip ==
    [][TntStep =>
         LET w == Walks'
             ind == IndirectWalks(w, Len(w))
             followed == {j \in ind : j < Len(w)}
         IN  /\ Len(Packets') = 1 + Cardinality(ind)
             /\ Cardinality(TipEdges(Edges')) = Cardinality(followed)
             /\ \A j \in ind :
                  LET k == 1 + Cardinality(IndirectWalks(w, j))
                      d == Packets'[k]
                      t == TipIp(StepPacket(Packets', k), state.tip_last_ip)
                  IN  IF d.kind \in {"Eof", "MalformedPacket"}
                      THEN j = Len(w) /\ last'.res.tag = d.kind
                      ELSE IF d.kind # "Tip"
                      THEN /\ j = Len(w)
                           /\ result' = InvalidPacketSequence(<<StepPacket(Packets', k)>>)
                      ELSE IF ~t.ok THEN j = Len(w) /\ result'.tag = "MalformedPacket"
                      ELSE /\ j < Len(w)
                           /\ k = 2 => w[j + 1].from = t.last_ip
                           /\ \E e \in TipEdges(Edges') :
                                /\ Edges'[e].decision = w[j].reason
                                /\ Edges'[e].from = w[j].ip
                                /\ Edges'[e].to = w[j + 1].from
             /\ pc' = "running" =>
                  Cardinality(CondWalks(w, Len(w))) = Len(TntIter(StepPacket(Packets', 1)))]_vars

\* a taken bit has met the ret of 0x1004 first: the Tip to 0x1000 has been
\* read and followed, and the bit has been consumed at the jne of 0x1001
C25_Witness ==
    /\ pc = "running"
    /\ Len(Packets) = 2
    /\ Packets[1].kind = "TntShort"
    /\ Packets[2].kind = "Tip"
    /\ Len(Walks) = 2
    /\ Walks[1].reason.kind = "Return"
    /\ Walks[2].from = U64(4096)
    /\ Walks[2].reason.kind = "CondBranch"
    /\ Len(Edges) = 2
    /\ Edges[1].to = U64(4096)
    /\ state.ip = U64(4101)

\* a step of one packet of the kind, taken with tracing enabled, whose walk
\* has returned a stop reason
WalkedStep(kind) ==
    /\ pc = "running"
    /\ state.packet_en
    /\ Len(Packets') > 0
    /\ Packets'[1].kind = kind
    /\ Len(Walks') > 0
    /\ Walks'[1].res = "Ok"

\* C26: a top-level Tip walks with walk_until(None) from ip.  When the walk
\* stops at Indirect, FarIndirect or Return, a Tip with an IP has one edge to
\* its decompressed address handed to the map (recorded unless coverage is
\* filtered out) and ip and tip_last_ip become that address, and a Tip without
\* an IP fails with MalformedPacket; when the walk stops at CondBranch or
\* MovCr3 the handler fails with IncoherentImage, records nothing and leaves
\* tip_last_ip as it was.
C26_TopLevelTip ==
    [][WalkedStep("Tip") =>
         LET w == Walks'[1]
             t == TipIp(StepPacket(Packets', 1), state.tip_last_ip)
         IN  /\ Len(Walks') = 1
             /\ Len(Packets') = 1
             /\ w.until = <<>>
             /\ w.from = state.ip
             /\ w.reason.kind \in IndirectKinds \cup {"CondBranch", "MovCr3"}
             /\ (w.reason.kind \in IndirectKinds /\ t.ok) =>
                  /\ pc' = "running"
                  /\ Len(Edges') = 1
                  /\ Edges'[1].from = w.ip
                  /\ Edges'[1].to = t.last_ip
                  /\ Edges'[1].recorded = state.save_coverage
                  /\ state'.ip = t.last_ip
                  /\ state'.tip_last_ip = t.last_ip
             /\ (w.reason.kind \in IndirectKinds /\ ~t.ok) =>
                  /\ result'.tag = "MalformedPacket"
                  /\ Edges' = <<>>
                  /\ coverage' = coverage
             /\ w.reason.kind \in {"CondBranch", "MovCr3"} =>
                  /\ result'.tag = "IncoherentImage"
                  /\ Edges' = <<>>
                  /\ coverage' = coverage
                  /\ state'.tip_last_ip = state.tip_last_ip]_vars

\* a Tip to 0x1007 has met the mov cr3 of 0x100b: IncoherentImage, and the
\* last IP is still the one the Fup left
C26_Witness ==
    /\ pc = "done"
    /\ result.tag = "IncoherentImage"
    /\ Len(Packets) = 1
    /\ Packets[1].kind = "Tip"
    /\ Len(Walks) = 1
    /\ Walks[1].reason.kind = "MovCr3"
    /\ state.tip_last_ip = U64(4107)
    /\ TipIp(StepPacket(Packets, 1), state.tip_last_ip).last_ip = U64(4103)

\* C27: a TipPge walks no instruction and records no coverage; with an IP it
\* sets packet_en and sets ip and tip_last_ip to the decompressed address,
\* whatever packet_en was, and without an IP it fails with MalformedPacket and
\* leaves the execution state and the map unchanged.
C27_TipPge ==
    [][(pc = "running" /\ Len(Packets') > 0 /\ Packets'[1].kind = "TipPge") =>
         LET t == TipIp(StepPacket(Packets', 1), state.tip_last_ip)
         IN  /\ Len(Packets') = 1
             /\ Walks' = <<>>
             /\ Edges' = <<>>
             /\ coverage' = coverage
             /\ IF t.ok
                THEN /\ pc' = "running"
                     /\ state' = [state EXCEPT !.packet_en = TRUE, !.ip = t.last_ip,
                                               !.tip_last_ip = t.last_ip]
                ELSE /\ result'.tag = "MalformedPacket"
                     /\ state' = state]_vars

\* a TipPge to 0x1000 has been handled by an engine whose PSB+ had no Fup, so
\* that packet generation was off
C27_Witness ==
    /\ pc = "running"
    /\ Len(Packets) = 1
    /\ Packets[1].kind = "TipPge"
    /\ Packets[1].start = PSB_SIZE + PSBEND_SIZE
    /\ SubSeq(pt_trace, PSB_SIZE + 1, PSB_SIZE + PSBEND_SIZE) = EncPsbEnd
    /\ state.packet_en
    /\ state.ip = U64(4096)
    /\ state.tip_last_ip = U64(4096)

\* a TipPgd step with tracing enabled whose walk has returned a stop reason:
\* the walk is bounded by the packet's address if it has one, packet_en is
\* false afterwards, nothing is recorded, and MovCr3 is refused with
\* IncoherentImage, for a TipPgd without an IP only if `both`
TipPgdHandled(both) ==
    WalkedStep("TipPgd") =>
        LET w == Walks'[1]
            t == TipIp(StepPacket(Packets', 1), state.tip_last_ip)
        IN  /\ Len(Walks') = 1
            /\ Len(Packets') = 1
            /\ w.from = state.ip
            /\ w.until = IF t.ok THEN <<t.last_ip>> ELSE <<>>
            /\ w.reason.kind = "UntilIpReached" => t.ok
            /\ ~state'.packet_en
            /\ Edges' = <<>>
            /\ coverage' = coverage
            /\ IF w.reason.kind = "MovCr3" /\ (t.ok \/ both)
               THEN result'.tag = "IncoherentImage"
               ELSE pc' = "running"

\* C28 as stated: a TipPgd handled with packet_en = true walks up to its
\* address, or to the next decision point if it has none; in both forms a walk
\* that stops at MovCr3 fails with IncoherentImage and every other stop reason
\* is accepted; packet_en is false afterwards and no coverage is recorded.
C28_MovCr3RefusedInBothForms == [][TipPgdHandled(TRUE)]_vars

\* C28 amended: MovCr3 is refused only for a TipPgd that carries an IP; for a
\* TipPgd without an IP every stop reason, MovCr3 included, is accepted.
C28_MovCr3RefusedWithIp == [][TipPgdHandled(FALSE)]_vars

\* a TipPgd without an IP has met the mov cr3 of 0x100b and has been accepted
C28_Witness ==
    /\ pc = "running"
    /\ Len(Packets) = 1
    /\ Packets[1].kind = "TipPgd"
    /\ Packets[1].end - Packets[1].start = 1
    /\ Len(Walks) = 1
    /\ Walks[1].reason.kind = "MovCr3"
    /\ ~state.packet_en

\* `target` is on the static control flow from `a`, before any instruction of
\* a decision class
RECURSIVE Reaches(_, _, _, _)
Reaches(a, target, bitness, fuel) ==
    LET hits == HalfOpenImages(a)
        i == CHOOSE j \in hits : \A k \in hits : j <= k
        start == virtual_address_start(builder.images[i])
        ins == Decode(bitness, builder.images[i].data, Small64(Sub64(a, start)), a)
        class == InstructionClass(ins)
    IN  IF a = target THEN TRUE
        ELSE IF fuel = 0 \/ hits = {} THEN FALSE
        ELSE IF ins.code = "INVALID" THEN FALSE
        ELSE IF class = "Other" THEN Reaches(Add64(a, ins.len), target, bitness, fuel - 1)
        ELSE IF class \in {"JumpDirect", "CallDirect"}
        THEN Reaches(ins.near_branch, target, bitness, fuel - 1)
        ELSE FALSE

\* C29: a standalone Fup without an IP fails with MalformedPacket before any
\* walk; one with an IP walks from ip with walk_until(Some(fup_ip)), and the
\* engine goes on to the packets that follow only if the walk ends with
\* UntilIpReached, which it does exactly when the address is reached through
\* Other and direct jumps and calls; a decision point met first gives
\* IncoherentImage.
C29_StandaloneFup ==
    [][(pc = "running" /\ Len(Packets') > 0 /\ Packets'[1].kind = "Fup") =>
         LET t == TipIp(StepPacket(Packets', 1), state.tip_last_ip)
         IN  /\ ~t.ok =>
                  /\ result'.tag = "MalformedPacket"
                  /\ Walks' = <<>>
                  /\ Len(Packets') = 1
             /\ (t.ok /\ state.packet_en) =>
                  /\ Len(Walks') = 1
                  /\ Walks'[1].from = state.ip
                  /\ Walks'[1].until = <<t.last_ip>>
                  /\ Len(Packets') > 1 <=> Walks'[1].reason.kind = "UntilIpReached"
                  /\ Walks'[1].res = "Ok" =>
                       /\ Walks'[1].reason.kind = "UntilIpReached" <=>
                             Reaches(state.ip, t.last_ip,
                                     addressing_mode(state.mode_exec), MaxPath)
                       /\ Walks'[1].reason.kind # "UntilIpReached" =>
                             result'.tag = "IncoherentImage"]_vars

\* a Fup at 0x1009 has been applied from 0x1005, across the direct jump, and
\* the engine has gone on to the next packet
C29_Witness ==
    /\ Len(Packets) = 2
    /\ Packets[1].kind = "Fup"
    /\ Len(Walks) = 1
    /\ Walks[1].from = U64(4101)
    /\ Walks[1].until = <<U64(4105)>>
    /\ Walks[1].reason.kind = "UntilIpReached"

\* the packet read k-th in the step was a packet, not a failure of the read
WasRead(packets, k) == packets[k].start < packets[k].end

\* C30: after a top-level Fup has been applied, every packet read before the
\* last one of the step is a Pip; a closing Tip with an IP sets ip to its
\* address with no walk and no coverage; a closing TipPgd clears packet_en and
\* sets ip when it carries an IP; a packet of any other kind gives
\* InvalidPacketSequence.
C30_CompoundFup ==
    [][(pc = "running" /\ Len(Packets') > 1 /\ Packets'[1].kind = "Fup") =>
         LET n == Len(Packets')
             closing == StepPacket(Packets', n)
             pips == {j \in 2..n : Packets'[j].kind = "Pip" /\ WasRead(Packets', j)}
             after_fup == TipIp(StepPacket(Packets', 1), state.tip_last_ip).last_ip
             t == TipIp(closing, after_fup)
         IN  /\ \A j \in 2..(n - 1) : j \in pips
             /\ pips # {} =>
                  state'.pip = StepPacket(Packets', CHOOSE j \in pips : \A k \in pips : k <= j).raw
             /\ WasRead(Packets', n) =>
                  /\ n \notin pips
                  /\ Len(Walks') = 1
                  /\ Edges' = <<>>
                  /\ coverage' = coverage
                  /\ (closing.kind = "Tip" /\ t.ok) =>
                       /\ result'.tag = "Ok"
                       /\ state'.ip = t.last_ip
                       /\ state'.packet_en
                  /\ closing.kind = "TipPgd" =>
                       /\ result'.tag = "Ok"
                       /\ ~state'.packet_en
                       /\ t.ok => state'.ip = t.last_ip
                  /\ closing.kind \notin {"Tip", "TipPgd"} =>
                       /\ result'.tag = "InvalidPacketSequence"
                       /\ result'.packets = <<StepPacket(Packets', 1), closing>>]_vars

\* the Pip of the step has been stored and has set save_coverage as the
\* builder's filter says
PipStored(pip) ==
    /\ pc' = "running"
    /\ state'.pip = pip.raw
    /\ state'.save_coverage =
           IF builder.filter_vmx_non_root THEN non_root_vmx(pip.raw) ELSE state.save_coverage

\* C31: a top-level Pip met with tracing disabled is stored without a walk;
\* met with tracing enabled it walks once with no until address and is stored
\* when the walk stops at MovCr3 or FarIndirect, while a stop at CondBranch,
\* Indirect or Return gives IncoherentImage with pip and save_coverage unchanged.
C31_Pip ==
    [][(pc = "running" /\ Len(Packets') > 0 /\ Packets'[1].kind = "Pip") =>
         LET pip == StepPacket(Packets', 1)
         IN  /\ Len(Packets') = 1
             /\ Edges' = <<>>
             /\ ~state.packet_en => Walks' = <<>> /\ PipStored(pip)
             /\ state.packet_en =>
                  /\ Len(Walks') = 1
                  /\ Walks'[1].from = state.ip
                  /\ Walks'[1].until = <<>>
                  /\ Walks'[1].res = "Ok" =>
                       /\ Walks'[1].reason.kind \in
                              {"MovCr3", "FarIndirect", "CondBranch", "Indirect", "Return"}
                       /\ Walks'[1].reason.kind \in {"MovCr3", "FarIndirect"} =>
                              PipStored(pip)
                       /\ Walks'[1].reason.kind \in {"CondBranch", "Indirect", "Return"} =>
                              /\ result'.tag = "IncoherentImage"
                              /\ state'.pip = state.pip
                              /\ state'.save_coverage = state.save_coverage]_vars

\* a Pip without the non-root bit has been stored after a walk to the mov cr3,
\* and the filter has switched save_coverage off
C31_Witness ==
    /\ pc = "running"
    /\ Len(Packets) = 1
    /\ Packets[1].kind = "Pip"
    /\ Len(Walks) = 1
    /\ Walks[1].reason.kind = "MovCr3"
    /\ builder.filter_vmx_non_root
    /\ ~state.save_coverage
    /\ state.pip = StepPacket(Packets, 1).raw

\* C32: a top-level ModeExec reads exactly one more packet; a Tip is handled
\* as a top-level Tip, a TipPge as a TipPge, a Fup as a standalone Fup, and a
\* packet of another kind gives InvalidPacketSequence without a walk; every
\* walk of the step runs under the mode of before, and mode_exec takes the
\* packet's value when the step succeeds and keeps its value when it fails.
C32_ModeExec ==
    [][(pc = "running" /\ Len(Packets') > 0 /\ Packets'[1].kind = "ModeExec") =>
         LET mode == StepPacket(Packets', 1)
             follow == StepPacket(Packets', 2)
             t == TipIp(follow, state.tip_last_ip)
         IN  /\ Len(Packets') = 2
             /\ \A k \in 1..Len(Walks') : Walks'[k].mode_exec = state.mode_exec
             /\ state'.mode_exec = IF pc' = "running" THEN mode.raw[1] ELSE state.mode_exec
             /\ WasRead(Packets', 2) =>
                  /\ follow.kind \notin {"Tip", "TipPge", "Fup"} =>
                       /\ result'.tag = "InvalidPacketSequence"
                       /\ result'.packets = <<mode, follow>>
                       /\ Walks' = <<>>
                  /\ follow.kind = "Tip" =>
                       /\ Len(Walks') = 1
                       /\ Walks'[1].until = <<>>
                       /\ pc' = "running" =>
                            /\ Walks'[1].reason.kind \in {"Indirect", "FarIndirect", "Return"}
                            /\ Len(Edges') = 1
                            /\ state'.ip = t.last_ip
                  /\ follow.kind = "TipPge" =>
                       /\ Walks' = <<>>
                       /\ Edges' = <<>>
                       /\ pc' = "running" <=> t.ok
                       /\ t.ok => state'.packet_en /\ state'.ip = t.last_ip
                  /\ follow.kind = "Fup" =>
                       /\ Edges' = <<>>
                       /\ t.ok => Len(Walks') = 1 /\ Walks'[1].until = <<t.last_ip>>
                       /\ pc' = "running" <=>
                              t.ok /\ Walks'[1].reason.kind = "UntilIpReached"]_vars

\* a ModeExec followed by a Tip has been handled at the ret: the walk ran in
\* the 16-bit mode of before and the mode is now the 64-bit one of the packet
C32_Witness ==
    /\ pc = "running"
    /\ Len(Packets) = 2
    /\ Packets[1].kind = "ModeExec"
    /\ Packets[2].kind = "Tip"
    /\ Len(Walks) = 1
    /\ Walks[1].reason.kind = "Return"
    /\ addressing_mode(Walks[1].mode_exec) = 16
    /\ addressing_mode(state.mode_exec) = 64

\* the third packet of a ModeTsx step, read after an abort's Fup
TsxClosing(tsx, fup) ==
    LET closing == StepPacket(Packets', 3)
    IN  /\ closing.kind \notin {"Tip", "TipPge", "TipPgd"} =>
             /\ result'.tag = "InvalidPacketSequence"
             /\ result'.packets = <<tsx, fup, closing>>
             /\ Len(Walks') = 1
        /\ closing.kind = "Tip" => Len(Walks') = 2 /\ Walks'[2].until = <<>>
        /\ closing.kind = "TipPge" =>
             /\ Len(Walks') = 1
             /\ pc' = "running" => state'.packet_en
        /\ closing.kind = "TipPgd" =>
             /\ Len(Walks') = 2
             /\ pc' = "running" => ~state'.packet_en

\* C33: a top-level ModeTsx met with tracing disabled reads no further packet;
\* met with tracing enabled it reads a Fup, applied as a standalone Fup, and,
\* for an abort, one more packet that is a Tip, a TipPge or a TipPgd; a packet
\* of another kind in either place gives InvalidPacketSequence; mode_tsx takes
\* the packet's value exactly when the step succeeds.
C33_ModeTsx ==
    [][(pc = "running" /\ Len(Packets') > 0 /\ Packets'[1].kind = "ModeTsx") =>
         LET tsx == StepPacket(Packets', 1)
             fup == StepPacket(Packets', 2)
             f == TipIp(fup, state.tip_last_ip)
         IN  /\ state'.mode_tsx = IF pc' = "running" THEN tsx.raw[1] ELSE state.mode_tsx
             /\ ~state.packet_en =>
                  /\ Len(Packets') = 1
                  /\ Walks' = <<>>
                  /\ pc' = "running"
             /\ state.packet_en =>
                  /\ Len(Packets') >= 2
                  /\ (WasRead(Packets', 2) /\ fup.kind # "Fup") =>
                       /\ result'.tag = "InvalidPacketSequence"
                       /\ result'.packets = <<tsx, fup>>
                       /\ Len(Packets') = 2
                       /\ Walks' = <<>>
                  /\ (WasRead(Packets', 2) /\ fup.kind = "Fup" /\ ~f.ok) =>
                       /\ result'.tag = "MalformedPacket"
                       /\ Len(Packets') = 2
                       /\ Walks' = <<>>
                  /\ (WasRead(Packets', 2) /\ fup.kind = "Fup" /\ f.ok) =>
                       /\ Len(Walks') >= 1
                       /\ Walks'[1].until = <<f.last_ip>>
                       /\ Walks'[1].reason.kind # "UntilIpReached" =>
                            pc' = "done" /\ Len(Packets') = 2
                       /\ (Walks'[1].reason.kind = "UntilIpReached" /\ tsx.raw[1] # 2) =>
                            pc' = "running" /\ Len(Packets') = 2 /\ Len(Walks') = 1
                       /\ (Walks'[1].reason.kind = "UntilIpReached" /\ tsx.raw[1] = 2) =>
                            /\ Len(Packets') = 3
                            /\ WasRead(Packets', 3) => TsxClosing(tsx, fup)]_vars

\* an abort met with tracing enabled at the ret has read its Fup and a Tip,
\* which the ret has consumed
C33_Witness ==
    /\ pc = "running"
    /\ Len(Packets) = 3
    /\ Packets[1].kind = "ModeTsx"
    /\ Packets[2].kind = "Fup"
    /\ Packets[3].kind = "Tip"
    /\ Len(Walks) = 2
    /\ Walks[2].reason.kind = "Return"
    /\ state.mode_tsx = 2

\* the packets of a PSB+ that set the state being rebuilt
StatusKinds == {"Pip", "Vmcs", "ModeTsx", "ModeExec", "Fup"}

\* the payload of the last packet of `kind` among the packets 2..n of the
\* step, or `none` when there is no such packet
LastOf(packets, n, kind, none) ==
    LET js == {j \in 2..n : packets[j].kind = kind}
    IN  IF js = {} THEN none
        ELSE StepPacket(packets, CHOOSE j \in js : \A k \in js : k <= j).raw

\* [packet_en, tip_last_ip, ip] after the Fup packets among the packets j..n
RECURSIVE AfterFups(_, _, _, _)
AfterFups(packets, j, n, acc) ==
    IF j > n THEN acc
    ELSE IF packets[j].kind # "Fup" THEN AfterFups(packets, j + 1, n, acc)
    ELSE LET f == TipIp(StepPacket(packets, j), acc.tip_last_ip)
         IN  AfterFups(packets, j + 1, n,
                       IF f.ok
                       THEN [packet_en |-> TRUE, tip_last_ip |-> f.last_ip, ip |-> f.last_ip]
                       ELSE [acc EXCEPT !.packet_en = FALSE])

\* C34: after a Psb every packet read before the last one of the step is a
\* Pip, Vmcs, ModeTsx, ModeExec or Fup; a closing PsbEnd leaves the state
\* these packets describe; a packet of any other kind gives MalformedPsbPlus;
\* and a PsbEnd read at the top level gives InvalidPacketSequence.
C34_PsbPlus ==
    [][/\ (pc = "running" /\ Len(Packets') > 0 /\ Packets'[1].kind = "Psb") =>
            LET n == Len(Packets')
                fups == AfterFups(Packets', 2, n,
                                  [packet_en |-> FALSE, tip_last_ip |-> Zero64, ip |-> Zero64])
            IN  /\ n > 1
                /\ \A j \in 2..(n - 1) : Packets'[j].kind \in StatusKinds
                /\ (WasRead(Packets', n) /\ Packets'[n].kind = "PsbEnd") =>
                     /\ pc' = "running"
                     /\ state'.pip = LastOf(Packets', n, "Pip", <<0, 0, 0, 0, 0, 0>>)
                     /\ state'.vmcs = IF Has(Packets', {"Vmcs"})
                                      THEN <<LastOf(Packets', n, "Vmcs", <<>>)>> ELSE <<>>
                     /\ state'.mode_tsx = LastOf(Packets', n, "ModeTsx", <<0>>)[1]
                     /\ state'.mode_exec = LastOf(Packets', n, "ModeExec", <<0>>)[1]
                     /\ state'.packet_en = fups.packet_en
                     /\ state'.tip_last_ip = fups.tip_last_ip
                     /\ state'.ip = fups.ip
                /\ (WasRead(Packets', n) /\ Packets'[n].kind # "PsbEnd") =>
                     /\ Packets'[n].kind \notin StatusKinds
                     /\ result'.tag = "MalformedPsbPlus"
       /\ (pc = "running" /\ Len(Packets') > 0 /\ Packets'[1].kind = "PsbEnd") =>
            /\ Len(Packets') = 1
            /\ result'.tag = "InvalidPacketSequence"
            /\ result'.packets = <<StepPacket(Packets', 1)>>]_vars

\* the step before was an Ovf that looked at a packet other than a Fup
OvfRolledBack ==
    /\ Len(Packets) = 2
    /\ Packets[1].kind = "Ovf"
    /\ WasRead(Packets, 2)
    /\ Packets[2].kind # "Fup"

\* C35: an Ovf reads one more packet.  A Fup with an IP sets packet_en and
\* makes ip and tip_last_ip the Fup's address, with no walk and no coverage;
\* any other packet clears packet_en and is given back, so that the next step
\* starts with this very packet and the cursor passes it once.
C35_Ovf ==
    [][/\ (pc = "running" /\ Len(Packets') > 0 /\ Packets'[1].kind = "Ovf") =>
            LET peeked == StepPacket(Packets', 2)
                f == TipIp(peeked, state.tip_last_ip)
            IN  /\ Len(Packets') = 2
                /\ Walks' = <<>>
                /\ Edges' = <<>>
                /\ coverage' = coverage
                /\ (WasRead(Packets', 2) /\ peeked.kind = "Fup" /\ f.ok) =>
                     /\ pc' = "running"
                     /\ state'.packet_en
                     /\ state'.ip = f.last_ip
                     /\ state'.tip_last_ip = f.last_ip
                     /\ pos' = Packets'[2].end
                /\ (WasRead(Packets', 2) /\ peeked.kind # "Fup") =>
                     /\ pc' = "running"
                     /\ ~state'.packet_en
                     /\ state'.ip = state.ip
                     /\ state'.tip_last_ip = state.tip_last_ip
                     /\ pos' = Packets'[2].start
       /\ (pc = "running" /\ OvfRolledBack /\ last' # last) =>
            /\ Len(Packets') > 0
            /\ Packets'[1] = Packets[2]
            /\ pos' >= Packets[2].end]_vars

\* the TipPge that an Ovf had looked at and given back has been handled by
\* the step after the Ovf
C35_Witness ==
    /\ pc = "running"
    /\ Len(Packets) = 1
    /\ Packets[1].kind = "TipPge"
    /\ Packets[1].start >= 2
    /\ SubSeq(pt_trace, Packets[1].start - 1, Packets[1].start) = EncOvf
    /\ state.packet_en

\* the packets whose ip() updates the running last IP
TipFamily == {"Tip", "TipPge", "TipPgd", "Fup"}

\* C36: a step changes tip_last_ip only when it starts with a Psb or has read
\* a Tip, TipPge, TipPgd or Fup that carries an IP; every other step, and a
\* step whose TIP-family packets are all IP-less, leaves it as it was.
C36_TipLastIpFrame ==
    [][(pc = "running" /\ state'.tip_last_ip # state.tip_last_ip) =>
         /\ Len(Packets') > 0
         /\ \/ Packets'[1].kind = "Psb"
            \/ \E k \in 1..Len(Packets') :
                  /\ WasRead(Packets', k)
                  /\ Packets'[k].kind \in TipFamily
                  /\ StepPacket(Packets', k).ip_bytes # "None"]_vars

\* an IP-less TipPgd has been handled and the running last IP, set by packets
\* before it, is still there
C36_Witness ==
    /\ pc = "running"
    /\ Len(Packets) = 1
    /\ Packets[1].kind = "TipPgd"
    /\ StepPacket(Packets, 1).ip_bytes = "None"
    /\ Len(Walks) = 1
    /\ Walks[1].res = "Ok"
    /\ state.tip_last_ip # Zero64

\* C37: a walk with an until address that ends with UntilIpReached leaves ip
\* on that address, whether it was reached at once, by a direct jump or by
\* stepping over Other instructions.
C37_IpAfterUntil ==
    [][pc = "running" =>
         \A k \in 1..Len(Walks') :
            (Walks'[k].res = "Ok" /\ Walks'[k].reason.kind = "UntilIpReached") =>
                /\ Walks'[k].until # <<>>
                /\ Walks'[k].ip = Walks'[k].until[1]]_vars

\* C38: no walk comes back to a configuration it has been in: every walk of
\* a step ends with a stop reason or with an error the engine returns.  (No
\* direct jump or call of the images leads back to a walked instruction.)
C38_WalkTerminates ==
    /\ result.tag # "Hang"
    /\ \A k \in 1..Len(Walks) : Walks[k].res # "Hang"

\* the walks of the step that were answered from the cache
CachedWalks(walks) == {k \in 1..Len(walks) : walks[k].cached}

\* C39: the cache is transparent walk by walk: a walk answered from the cache
\* gives the stop reason and the ip that the walk loop, run from the same ip
\* under the addressing mode of the moment, gives; the engine being
\* deterministic, its result, map and state are then those of an engine that
\* never consults the cache.
C39_CacheTransparent ==
    [][pc = "running" =>
         \A k \in CachedWalks(Walks') :
            LET w == Walks'[k]
                nd == new_inst_decoder(w.from, w.mode_exec)
                fresh == WalkLoop(w.from, w.mode_exec, nd.dec, <<>>, {})
            IN  /\ nd.ok
                /\ fresh.kind = "break"
                /\ w.res = "Ok"
                /\ w.reason = StopReasonOf(fresh.ins, fresh.at)
                /\ w.ip = fresh.ip]_vars

\* the stop reasons of an instruction of a decision class
DecisionKinds == {"CondBranch", "Return", "Indirect", "FarIndirect", "MovCr3"}

\* C40: no unreachable!() arm is reached: no walk stops on an instruction
\* without a stop reason, a walk without an until address never gives
\* UntilIpReached, no cache entry holds UntilIpReached, and every instruction
\* for which next_ip asks for the trace has a stop reason.
C40_NoUnreachableArm ==
    /\ \A k \in 1..Len(Walks) :
          /\ Walks[k].res # "Panic"
          /\ Walks[k].res = "Ok" =>
                Walks[k].reason.kind \in
                    DecisionKinds \cup (IF Walks[k].until = <<>> THEN {}
                                        ELSE {"UntilIpReached"})
    /\ \A a \in DOMAIN proceed_inst_cache :
          proceed_inst_cache[a].reason.kind \in DecisionKinds
    /\ pc = "idle" =>
          \A i \in Instructions :
             next_ip(i) = "Err" => StopReasonOf(i, Zero64).kind \in DecisionKinds

\* a walk without an until address has been answered from the cache, which
\* holds an entry that a walk with an until address has made
C40_Witness ==
    /\ pc = "running"
    /\ \E k \in CachedWalks(Walks) : Walks[k].until = <<>> /\ Walks[k].from = U64(4097)
    /\ \E q \in 1..Len(pt_trace) - 2 : SubSeq(pt_trace, q, q + 2) = EncTipPgdIp

====
